---- MODULE Spec2Model ----
(***************************************************************************)
(* Revisify 2.0 - the learning progression engine.                         *)
(*                                                                         *)
(* The model follows one document and one learner.  Every query of the     *)
(* progress code filters on user_id, so the rows of different learners     *)
(* never meet; every table below is the slice of the table that belongs    *)
(* to that learner and that document.                                      *)
(*                                                                         *)
(* Scores are Python floats correct_count / total_count.  They are kept    *)
(* here as reduced fractions [num, den]: two such floats                  *)
(* are equal, or ordered, exactly as the fractions are.                    *)
(***************************************************************************)
EXTENDS Integers, Sequences, FiniteSets, TLC

VARIABLES
    concepts,     \* Concept table: the ids of the document's concepts
    edges,        \* PrereqEdge table: rows [concept_id, prerequisite_id]
    steps,        \* RoadmapStep table: rows [id, concept_id, order]
    mcq_sets,     \* MCQSet table with its MCQ rows: [id, roadmap_step_id, question_count, correct]
    progress,     \* StepProgress table: rows [roadmap_step_id, concept_id, status, mastery_score]
    attempts,     \* Attempt table, in insertion order
    response,     \* what the last operation returned to its caller
    session,      \* the database session of the grade_attempt request in flight
    hints,        \* Hint table, in insertion order: rows [roadmap_step_id, hint_number]
    hint_requests,\* the get_hint calls in flight: position and what each has read
    llm_calls,    \* how many times LLMClient.generate_hint was called
    vector_store, \* whether faiss can be imported, and the document's files in INDICES_FOLDER
    document      \* the Document row, and where the process_document call for it is

vars == <<concepts, edges, steps, mcq_sets, progress, attempts, response,
          session, hints, hint_requests, llm_calls, vector_store, document>>

\* what the progress operations called on their own never touch
beyond_progress == <<session, hints, hint_requests, llm_calls, vector_store, document>>

----------------------------------------------------------------------------
(* Bounds of the model *)

\* prerequisite edges of the document
MaxEdges == 2
\* Attempt rows after which no further attempt is submitted
MaxAttempts == 2
\* prerequisite edges of the document in the roadmap specification
MaxRoadmapEdges == 2

\* the most prerequisite edges of the document build_roadmap is run on again
MaxStoredEdges == 3

\* the most attempts submitted on the document of two concepts
MaxSubmissions == 3

\* the most runs of infer_prerequisites on one document
MaxInferRuns == 2
\* largest question set whose answer maps are enumerated in full
MaxQuestions == 2
\* attempts submitted in the grading specification
MaxGradeRuns == 1

\* the concepts of the document in the progress specification
ConceptIds == {1, 2, 3}
\* the concepts of the document in the services specification
ServiceConceptIds == {1, 2}
\* the concept ids a document of the roadmap specification draws from
RoadmapConceptIds == {1, 2, 3, 4}

----------------------------------------------------------------------------
(* Values *)

\* a query that finds no row
None == [none |-> TRUE]

\* answer letters as a client may send them, and as the store keeps them
Letters == {"A", "B", "a", "b"}

\* str.upper() on an answer letter
upper(s) ==
    CASE s = "a" -> "A"
      [] s = "b" -> "B"
      [] OTHER -> s

\* the options the generator marks as correct: MCQ.correct_answer is stored upper-cased
StoredLetters == {upper(l) : l \in Letters}

RECURSIVE Gcd(_, _)
Gcd(a, b) == IF b = 0 THEN a ELSE Gcd(b, a % b)

\* the float n / d, as a reduced fraction
Frac(n, d) == LET g == Gcd(n, d) IN [num |-> n \div g, den |-> d \div g]

Zero == [num |-> 0, den |-> 1]

\* a >= b on floats
Geq(a, b) == a.num * b.den >= b.num * a.den

\* Python's max(a, b)
max(a, b) == IF Geq(a, b) THEN a ELSE b

\* Config.MCQ_THRESHOLD_SCORE, 0.5 unless the environment overrides it
MCQ_THRESHOLD_SCORE == [num |-> 1, den |-> 2]

----------------------------------------------------------------------------
(* Sequences and orders *)

Range(s) == {s[i] : i \in DOMAIN s}

\* the sequences that list every element of S exactly once
Perms(S) == {s \in [1..Cardinality(S) -> S] : Range(s) = S}

\* position of x in the sequence s (0 when absent)
IndexOf(s, x) == IF \E i \in DOMAIN s : s[i] = x
                 THEN CHOOSE i \in DOMAIN s : s[i] = x
                 ELSE 0

\* S in ascending order: rows come back in primary-key order
RECURSIVE Ascending(_)
Ascending(S) ==
    IF S = {} THEN <<>>
    ELSE LET m == CHOOSE x \in S : \A y \in S : x <= y
         IN <<m>> \o Ascending(S \ {m})

\* rows in the order of their (concept_id, prerequisite_id): a store order of the edges
RECURSIVE RowOrder(_)
RowOrder(E) ==
    IF E = {} THEN <<>>
    ELSE LET m == CHOOSE x \in E : \A y \in E :
                     \/ x.concept_id < y.concept_id
                     \/ x.concept_id = y.concept_id /\ x.prerequisite_id <= y.prerequisite_id
         IN <<m>> \o RowOrder(E \ {m})

----------------------------------------------------------------------------
(* RoadmapService.build_roadmap *)

\* in_degree with the edge counted at its prerequisite end
in_degree_of_prerequisite(cs, es) ==
    [c \in Range(cs) |-> Cardinality({i \in DOMAIN es : es[i].prerequisite_id = c})]

\* in_degree after the loop over the edges: the number of edge rows of each concept
in_degree(cs, es) ==
    [c \in Range(cs) |-> Cardinality({i \in DOMAIN es : es[i].concept_id = c})]

\* graph[p]: the dependents of p, in the order the edges came back
graph(es, p) ==
    LET sel == SelectSeq(es, LAMBDA e : e.prerequisite_id = p)
    IN [i \in DOMAIN sel |-> sel[i].concept_id]

\* the loop over graph[concept_id]: decrement, and enqueue what reaches zero
RECURSIVE relax(_, _, _)
relax(deps, deg, queue) ==
    IF deps = <<>> THEN [in_degree |-> deg, queue |-> queue]
    ELSE LET d == Head(deps)
             deg2 == [deg EXCEPT ![d] = @ - 1]
         IN relax(Tail(deps), deg2, IF deg2[d] = 0 THEN Append(queue, d) ELSE queue)

\* while queue: popleft, append to the output, relax the dependents
RECURSIVE kahn(_, _, _, _)
kahn(queue, deg, out, es) ==
    IF queue = <<>> THEN out
    ELSE LET c == Head(queue)
             r == relax(graph(es, c), deg, Tail(queue))
         IN kahn(r.queue, r.in_degree, Append(out, c), es)

\* the part of ordered_concept_ids the topological sort produces.
\* cs: the concept ids as the store returned them; es: the edge rows likewise
sorted_concept_ids(cs, es) ==
    LET deg == in_degree(cs, es)
    IN kahn(SelectSeq(cs, LAMBDA c : deg[c] = 0), deg, <<>>, es)

\* the concepts the sort never reached (they lie on a cycle or behind one)
remaining_concepts(cs, es) == Range(cs) \ Range(sorted_concept_ids(cs, es))

\* ordered_concept_ids without the concepts the sort never reached
ordered_concept_ids_sorted_only(cs, es, rs) == sorted_concept_ids(cs, es)

\* ordered_concept_ids: the sorted part, then the remaining set in the order
\* rs in which Python happens to iterate it
ordered_concept_ids(cs, es, rs) == sorted_concept_ids(cs, es) \o rs

\* RoadmapStep.query.filter_by(concept_id = c).first()
step_of_concept(tbl, c) ==
    IF \E s \in tbl : s.concept_id = c
    THEN CHOOSE s \in tbl : s.concept_id = c /\ \A t \in tbl : t.concept_id = c => s.id <= t.id
    ELSE None

\* RoadmapStep.query.get(id)
step_by_id(tbl, id) ==
    IF \E s \in tbl : s.id = id THEN CHOOSE s \in tbl : s.id = id ELSE None

\* the loop that inserts a step for every concept, whatever the table holds
RECURSIVE create_steps_always_new(_, _, _)
create_steps_always_new(ordered, step_order, tbl) ==
    IF ordered = <<>> THEN tbl
    ELSE create_steps_always_new(Tail(ordered), step_order + 1,
             tbl \cup {[id |-> Cardinality(tbl) + 1, concept_id |-> Head(ordered),
                        order |-> step_order]})

\* the loop that creates the roadmap steps: an existing step of the concept
\* gets the new order, a missing one is inserted with the next id
RECURSIVE create_steps(_, _, _)
create_steps(ordered, step_order, tbl) ==
    IF ordered = <<>> THEN tbl
    ELSE LET c == Head(ordered)
             existing_step == step_of_concept(tbl, c)
         IN IF existing_step # None
            THEN create_steps(Tail(ordered), step_order + 1,
                     (tbl \ {existing_step}) \cup {[existing_step EXCEPT !.order = step_order]})
            ELSE create_steps(Tail(ordered), step_order + 1,
                     tbl \cup {[id |-> Cardinality(tbl) + 1, concept_id |-> c,
                                order |-> step_order]})

\* build_roadmap's effect on the RoadmapStep table
build_roadmap(cs, es, rs, tbl) == create_steps(ordered_concept_ids(cs, es, rs), 0, tbl)

\* build_roadmap(document_id): the store returns the concepts and the edges
\* in some order, the remaining set iterates in some order
BuildRoadmap ==
    /\ concepts # {}
    /\ \E cs \in Perms(concepts), es \in Perms(edges) :
         \E rs \in Perms(remaining_concepts(cs, es)) :
            /\ steps' = build_roadmap(cs, es, rs, steps)
            /\ response' = [op |-> "build_roadmap",
                            concept_ids |-> ordered_concept_ids(cs, es, rs)]
    /\ UNCHANGED <<concepts, edges, mcq_sets, progress, attempts>>
    /\ UNCHANGED beyond_progress

\* build_roadmap on a document without concepts raises ValueError
BuildRoadmapNoConcepts ==
    /\ concepts = {}
    /\ response' = [op |-> "build_roadmap", error |-> "ValueError"]
    /\ UNCHANGED <<concepts, edges, steps, mcq_sets, progress, attempts>>
    /\ UNCHANGED beyond_progress

\* the edge tables over a set of concepts
EdgeRows(cs) == [concept_id : cs, prerequisite_id : cs]

BoundedSubsets(S, n) == {T \in SUBSET S : Cardinality(T) <= n}

NoResponse == [op |-> "none"]

\* no grade_attempt request in flight
NoSession == [pc |-> "idle"]

\* the stages of process_document, in the order of its code
Stages ==
    <<"extract", "chunk", "embed", "index", "extract_concepts", "infer_prerequisites",
      "build_roadmap">>

\* the Document row after process_document has run through: no call in progress
ProcessedDocument ==
    [status |-> "ready", error_message |-> None, file_type |-> "pdf",
     pc |-> "returned", called |-> Stages, chunks |-> <<>>]

\* neither index file of the document written
NoIndexFiles == [faiss |-> TRUE, index |-> None, chunk_map |-> None, build |-> None]

\* nothing beyond the progress tables in use
InitBeyondProgress ==
    /\ session = NoSession
    /\ hints = <<>>
    /\ hint_requests = <<>>
    /\ llm_calls = 0
    /\ vector_store = NoIndexFiles
    /\ document = ProcessedDocument

\* A document whose concepts and edges are stored and whose roadmap is not
\* built yet.  A self-referencing edge is among the inputs.
InitRoadmap ==
    /\ concepts \in SUBSET RoadmapConceptIds
    /\ edges \in BoundedSubsets(EdgeRows(concepts), MaxRoadmapEdges)
    /\ steps = {}
    /\ mcq_sets = {}
    /\ progress = {}
    /\ attempts = <<>>
    /\ response = NoResponse
    /\ InitBeyondProgress

NextRoadmap == BuildRoadmap \/ BuildRoadmapNoConcepts

SpecRoadmap == InitRoadmap /\ [][NextRoadmap]_vars

----------------------------------------------------------------------------
(* PrereqService: reading the prerequisite graph *)

\* get_prerequisites_for_concept: the ids of the prerequisites of c
get_prerequisites_for_concept(c) ==
    {e.prerequisite_id : e \in {x \in edges : x.concept_id = c}}

\* get_dependent_concepts: the ids of the concepts that name c as a prerequisite
get_dependent_concepts(c) ==
    {e.concept_id : e \in {x \in edges : x.prerequisite_id = c}}

\* StepProgress.query.filter_by(user_id, concept_id = c).first() on the table rows
progress_of_concept(rows, c) ==
    IF \E p \in rows : p.concept_id = c
    THEN CHOOSE p \in rows : p.concept_id = c /\
             \A q \in rows : q.concept_id = c => p.roadmap_step_id <= q.roadmap_step_id
    ELSE None

\* StepProgress.query.filter_by(user_id, roadmap_step_id = id).first()
progress_of_step(rows, id) ==
    IF \E p \in rows : p.roadmap_step_id = id
    THEN CHOOSE p \in rows : p.roadmap_step_id = id
    ELSE None

\* check_prerequisites_cleared that lets a prerequisite without a row pass
check_prerequisites_cleared_or_missing(rows, c) ==
    \A prereq \in get_prerequisites_for_concept(c) :
        LET p == progress_of_concept(rows, prereq)
        IN p = None \/ p.status = "cleared"

\* check_prerequisites_cleared(concept_id, user_id) on the table rows
check_prerequisites_cleared(rows, c) ==
    \A prereq \in get_prerequisites_for_concept(c) :
        LET p == progress_of_concept(rows, prereq)
        IN ~(p = None \/ p.status # "cleared")

----------------------------------------------------------------------------
(* RoadmapService.unlock_next_steps *)

\* unlock_next_steps that unlocks a dependent without looking at its other
\* prerequisites
unlock_dependent_unchecked(rows, d) ==
    LET roadmap_step == step_of_concept(steps, d)
    IN IF roadmap_step = None THEN rows
       ELSE LET p == progress_of_step(rows, roadmap_step.id)
            IN IF p = None
               THEN rows \cup {[roadmap_step_id |-> roadmap_step.id, concept_id |-> d,
                                status |-> "unlocked", mastery_score |-> Zero]}
               ELSE IF p.status = "locked"
               THEN (rows \ {p}) \cup {[p EXCEPT !.status = "unlocked"]}
               ELSE rows

\* what unlock_next_steps does for one dependent concept d
unlock_dependent(rows, d) ==
    IF check_prerequisites_cleared(rows, d)
    THEN LET roadmap_step == step_of_concept(steps, d)
         IN IF roadmap_step = None THEN rows
            ELSE LET p == progress_of_step(rows, roadmap_step.id)
                 IN IF p = None
                    THEN rows \cup {[roadmap_step_id |-> roadmap_step.id, concept_id |-> d,
                                     status |-> "unlocked", mastery_score |-> Zero]}
                    ELSE IF p.status = "locked"
                    THEN (rows \ {p}) \cup {[p EXCEPT !.status = "unlocked"]}
                    ELSE rows
    ELSE rows

\* the loop over the dependents.  A pass touches only the dependent's own row
\* and never a cleared status, so the passes commute.
RECURSIVE unlock_all(_, _)
unlock_all(rows, ds) ==
    IF ds = {} THEN rows
    ELSE LET d == CHOOSE x \in ds : \A y \in ds : x <= y
         IN unlock_all(unlock_dependent(rows, d), ds \ {d})

\* unlock_next_steps(document_id, user_id, cleared_concept_id) on the table rows
unlock_next_steps(rows, cleared_concept_id) ==
    unlock_all(rows, get_dependent_concepts(cleared_concept_id))

----------------------------------------------------------------------------
(* MasteryService.update_mastery *)

\* progress.mastery_score or 0.0
or_zero(m) == IF m = None THEN Zero ELSE m

\* the mastery an existing row gets when the last score simply replaces it
new_mastery_last_score(old, score) == score

\* the mastery an existing row gets
new_mastery(old, score) == max(or_zero(old), score)

\* update_mastery(user_id, concept_id, score) on the table rows
update_mastery(rows, c, score) ==
    LET p == progress_of_concept(rows, c)
    IN IF p # None
       THEN (rows \ {p}) \cup {[p EXCEPT !.mastery_score = new_mastery(p.mastery_score, score)]}
       ELSE LET roadmap_step == step_of_concept(steps, c)
            IN IF roadmap_step # None
               THEN rows \cup {[roadmap_step_id |-> roadmap_step.id, concept_id |-> c,
                                status |-> "unlocked", mastery_score |-> score]}
               ELSE rows

\* get_mastery_for_concept(user_id, concept_id)
get_mastery_for_concept(rows, c) ==
    LET p == progress_of_concept(rows, c)
    IN IF p # None THEN p.mastery_score ELSE Zero

----------------------------------------------------------------------------
(* GradingService *)

\* a failed attempt that locks the step
graded_status_locking(passed) == IF passed THEN "cleared" ELSE "locked"

\* the status a graded attempt writes
graded_status(passed) == IF passed THEN "cleared" ELSE "unlocked"

\* _update_step_progress that leaves the mastery of the row to update_mastery
graded_mastery_left(old, score) == old

\* progress.mastery_score = score
graded_mastery(old, score) == score

\* _update_step_progress up to the unlocking: the row is looked up or created,
\* and its status and mastery are written.
\* The question set's step exists (mcq_sets.roadmap_step_id is a foreign key that is
\* never deleted) and RoadmapStep.concept_id is not nullable, so the row's
\* concept_id is the step's.
write_step_progress(rows, roadmap_step_id, score, passed) ==
    LET found == progress_of_step(rows, roadmap_step_id)
        roadmap_step == step_by_id(steps, roadmap_step_id)
        p == IF found # None THEN found
             ELSE [roadmap_step_id |-> roadmap_step_id,
                   concept_id |-> roadmap_step.concept_id,
                   status |-> "unlocked", mastery_score |-> None]
        graded == [p EXCEPT !.status = graded_status(passed),
                            !.mastery_score = graded_mastery(p.mastery_score, score)]
    IN (rows \ {found}) \cup {graded}

\* _update_step_progress(user_id, roadmap_step_id, score, passed) on the table rows
update_step_progress(rows, roadmap_step_id, score, passed) ==
    LET rows2 == write_step_progress(rows, roadmap_step_id, score, passed)
        roadmap_step == step_by_id(steps, roadmap_step_id)
    IN IF passed /\ roadmap_step # None
       THEN unlock_next_steps(rows2, roadmap_step.concept_id)
       ELSE rows2

\* MCQSet.query.get(mcq_set_id)
mcq_set_by_id(id) ==
    IF \E m \in mcq_sets : m.id = id THEN CHOOSE m \in mcq_sets : m.id = id ELSE None

\* MCQService.get_correct_answers(mcq_set_id): question_number -> correct_answer
get_correct_answers(id) ==
    LET m == mcq_set_by_id(id) IN IF m = None THEN <<>> ELSE m.correct

\* correct_answers.get(question_num), None shown as the string "None"
correct_answer(correct_answers, question_num) ==
    IF question_num \in DOMAIN correct_answers THEN correct_answers[question_num] ELSE "None"

\* is_correct that compares the letters as they were sent
is_correct_case_sensitive(correct_answers, question_num, user_answer) ==
    IF question_num \in DOMAIN correct_answers
    THEN user_answer = correct_answers[question_num]
    ELSE FALSE

\* is_correct of one submitted answer: False when the set has no such question
is_correct(correct_answers, question_num, user_answer) ==
    IF question_num \in DOMAIN correct_answers
    THEN upper(user_answer) = upper(correct_answers[question_num])
    ELSE FALSE

\* correct_count after the loop over answers.items()
correct_count(correct_answers, answers) ==
    Cardinality({q \in DOMAIN answers : is_correct(correct_answers, q, answers[q])})

\* score = correct_count / total_questions if total_questions > 0 else 0
score_of(correct, total_questions) ==
    IF total_questions > 0 THEN Frac(correct, total_questions) ELSE Zero

\* passed with a strict comparison
passed_of_above(score) == ~Geq(MCQ_THRESHOLD_SCORE, score)

\* passed = score >= threshold
passed_of(score) == Geq(score, MCQ_THRESHOLD_SCORE)

\* the results dict: question_num -> user_answer, correct_answer, is_correct
results_of(correct_answers, answers) ==
    [q \in DOMAIN answers |->
        [user_answer |-> upper(answers[q]),
         correct_answer |-> correct_answer(correct_answers, q),
         is_correct |-> is_correct(correct_answers, q, answers[q])]]

\* what grade_attempt computes before it writes anything
grade(m, answers) ==
    LET ca == get_correct_answers(m.id)
        n == correct_count(ca, answers)
        sc == score_of(n, m.question_count)
    IN [score |-> sc, correct_count |-> n, total_count |-> m.question_count,
        passed |-> passed_of(sc), threshold |-> MCQ_THRESHOLD_SCORE,
        results |-> results_of(ca, answers)]

\* the rows of StepProgress after grade_attempt: _update_step_progress, then
\* update_mastery on the step's concept
graded_progress(rows, m, g) ==
    LET rows2 == update_step_progress(rows, m.roadmap_step_id, g.score, g.passed)
        roadmap_step == step_by_id(steps, m.roadmap_step_id)
    IN IF roadmap_step # None
       THEN update_mastery(rows2, roadmap_step.concept_id, g.score)
       ELSE rows2

\* the Attempt row grade_attempt adds
attempt_row(mcq_set_id, g) ==
    [mcq_set_id |-> mcq_set_id, score |-> g.score,
     correct_count |-> g.correct_count, total_count |-> g.total_count,
     answers_json |-> g.results]

\* an Attempt that takes the place of the learner's earlier one on the same set
add_attempt_replacing(atts, row) ==
    IF \E i \in DOMAIN atts : atts[i].mcq_set_id = row.mcq_set_id
    THEN [i \in DOMAIN atts |-> IF atts[i].mcq_set_id = row.mcq_set_id THEN row ELSE atts[i]]
    ELSE Append(atts, row)

\* db.session.add(attempt): a new row, whatever the table holds
add_attempt(atts, row) == Append(atts, row)

\* grade_attempt(user_id, mcq_set_id, answers) for an existing question set
grade_attempt(mcq_set_id, answers) ==
    \E m \in {mcq_set_by_id(mcq_set_id)} :
       /\ m # None
       /\ \E g \in {grade(m, answers)} :
             /\ attempts' = add_attempt(attempts, attempt_row(mcq_set_id, g))
             /\ progress' = graded_progress(progress, m, g)
             /\ response' = [op |-> "grade_attempt", mcq_set_id |-> mcq_set_id,
                             answers |-> answers, result |-> g]
       /\ UNCHANGED <<concepts, edges, steps, mcq_sets>>
       /\ UNCHANGED beyond_progress

----------------------------------------------------------------------------
(* Inputs of the progress specification *)

\* the sizes of the question sets the generator returns: the ten questions
\* that are asked for (Config.MCQ_COUNT_MAX)
QuestionCounts == {10}

\* the correct options the generator returns for a set of n questions
AnswerKey(n) == [q \in 1..n |-> IF q % 2 = 1 THEN "A" ELSE "B"]

\* an option other than the correct one
wrong(l) == IF l = "A" THEN "B" ELSE "A"

\* lower case of a stored letter
lower(l) == IF l = "A" THEN "a" ELSE "b"

\* how many questions of a set of n a learner gets right: three, half of
\* them (the threshold) or all
RightCounts(n) == {3, n \div 2, n} \cap (0..n)

\* the answer maps a learner submits to the question set m: the first k
\* questions right (in lower case), the next one unanswered, the others
\* wrong, and an answer to a question number the set does not have
AnswerSheets(m) ==
    {[q \in (1..(m.question_count + 1)) \ {k + 1} |->
         IF q <= k THEN lower(m.correct[q])
         ELSE IF q <= m.question_count THEN wrong(m.correct[q])
         ELSE "A"] : k \in RightCounts(m.question_count)}

\* the scores update_mastery is called with directly
Scores == {Frac(0, 1), Frac(3, 10), Frac(1, 2), Frac(1, 1)}

----------------------------------------------------------------------------
(* Operations of the progress specification *)

\* POST /api/attempts/submit -> GradingService.grade_attempt
GradeAttempt ==
    /\ Len(attempts) < MaxAttempts
    /\ \E m \in mcq_sets : \E answers \in AnswerSheets(m) : grade_attempt(m.id, answers)

\* MasteryService.update_mastery(user_id, concept_id, score)
UpdateMastery ==
    \E c \in concepts, score \in Scores :
        /\ progress' = update_mastery(progress, c, score)
        /\ response' = [op |-> "update_mastery", concept_id |-> c, score |-> score]
        /\ UNCHANGED <<concepts, edges, steps, mcq_sets, attempts>>
        /\ UNCHANGED beyond_progress

\* RoadmapService.unlock_next_steps(document_id, user_id, cleared_concept_id)
UnlockNextSteps ==
    \E c \in concepts :
        /\ progress' = unlock_next_steps(progress, c)
        /\ response' = [op |-> "unlock_next_steps"]
        /\ UNCHANGED <<concepts, edges, steps, mcq_sets, attempts>>
        /\ UNCHANGED beyond_progress

\* _user_can_access_step that lets every existing step through
user_can_access_step_ungated(step) == step # None

\* _user_can_access_step(step, user_id)
user_can_access_step(step) ==
    IF step = None THEN FALSE ELSE check_prerequisites_cleared(progress, step.concept_id)

\* the status get_step and get_roadmap_for_document report for a step
reported_status(step) ==
    LET p == progress_of_step(progress, step.id)
    IN IF p # None THEN p.status
       ELSE IF check_prerequisites_cleared(progress, step.concept_id) THEN "unlocked"
       ELSE "locked"

\* GET /api/steps/<step_id>
GetStep ==
    \E step \in steps :
        /\ response' = [op |-> "get_step", id |-> step.id, concept_id |-> step.concept_id,
                        status |-> reported_status(step),
                        mastery |-> LET p == progress_of_step(progress, step.id)
                                    IN IF p # None THEN p.mastery_score ELSE Zero]
        /\ UNCHANGED <<concepts, edges, steps, mcq_sets, progress, attempts>>
        /\ UNCHANGED beyond_progress

\* the steps in the order of RoadmapStep.order
RECURSIVE by_order(_)
by_order(tbl) ==
    IF tbl = {} THEN <<>>
    ELSE LET s == CHOOSE x \in tbl : \A y \in tbl :
                     x.order < y.order \/ (x.order = y.order /\ x.id <= y.id)
         IN <<s>> \o by_order(tbl \ {s})

\* RoadmapService.get_roadmap_for_document(document_id, user_id)
get_roadmap_for_document ==
    LET ordered == by_order(steps)
    IN [i \in DOMAIN ordered |->
           [id |-> ordered[i].id, concept_id |-> ordered[i].concept_id,
            order |-> ordered[i].order, status |-> reported_status(ordered[i])]]

\* GET /api/roadmap/<document_id>
GetRoadmapForDocument ==
    /\ response' = [op |-> "get_roadmap_for_document", roadmap |-> get_roadmap_for_document]
    /\ UNCHANGED <<concepts, edges, steps, mcq_sets, progress, attempts>>
    /\ UNCHANGED beyond_progress

\* MCQService.generate_mcq_set: the existing set of the step, or a new one
\* with as many questions as the generator returned
generate_mcq_set(roadmap_step_id, n) ==
    IF \E m \in mcq_sets : m.roadmap_step_id = roadmap_step_id
    THEN mcq_sets
    ELSE mcq_sets \cup {[id |-> Cardinality(mcq_sets) + 1, roadmap_step_id |-> roadmap_step_id,
                         question_count |-> n, correct |-> AnswerKey(n)]}

\* GET /api/steps/<step_id>/mcqs
GetStepMcqs ==
    \E step \in steps, n \in QuestionCounts :
        /\ IF user_can_access_step(step)
           THEN /\ mcq_sets' = generate_mcq_set(step.id, n)
                /\ response' = [op |-> "get_step_mcqs", id |-> step.id, code |-> 200]
           ELSE /\ mcq_sets' = mcq_sets
                /\ response' = [op |-> "get_step_mcqs", id |-> step.id, code |-> 403]
        /\ UNCHANGED <<concepts, edges, steps, progress, attempts>>
        /\ UNCHANGED beyond_progress

\* the edges infer_prerequisites can store: no self-loop
StoredEdgeRows(cs) == {e \in EdgeRows(cs) : e.concept_id # e.prerequisite_id}

\* A processed document: concepts, edges, and the roadmap build_roadmap made
\* of them; the learner has done nothing yet.
Init ==
    /\ concepts = ConceptIds
    /\ edges \in BoundedSubsets(StoredEdgeRows(concepts), MaxEdges)
    /\ steps = build_roadmap(Ascending(concepts), RowOrder(edges),
                   Ascending(remaining_concepts(Ascending(concepts), RowOrder(edges))), {})
    /\ mcq_sets = {}
    /\ progress = {}
    /\ attempts = <<>>
    /\ response = NoResponse
    /\ InitBeyondProgress

\* the operations a learner reaches through the routes
Next ==
    \/ GetStepMcqs
    \/ GradeAttempt
    \/ GetStep
    \/ GetRoadmapForDocument

Spec == Init /\ [][Next]_vars

----------------------------------------------------------------------------
(* build_roadmap run again and again on a document whose edges            *)
(* infer_prerequisites stored: three concepts, no self-referencing edge,  *)
(* enough edges for two mutual prerequisites and an edge leaving them     *)

StoredConceptIds == {1, 2, 3}

InitStoredRoadmap ==
    /\ concepts = StoredConceptIds
    /\ edges \in BoundedSubsets(StoredEdgeRows(concepts), MaxStoredEdges)
    /\ steps = {}
    /\ mcq_sets = {}
    /\ progress = {}
    /\ attempts = <<>>
    /\ response = NoResponse
    /\ InitBeyondProgress

NextStoredRoadmap == BuildRoadmap

SpecStoredRoadmap == InitStoredRoadmap /\ [][NextStoredRoadmap]_vars

----------------------------------------------------------------------------
(* The services called directly: update_mastery and unlock_next_steps next *)
(* to the routes, on a document of two concepts                            *)

InitServices ==
    /\ concepts = ServiceConceptIds
    /\ edges \in BoundedSubsets(StoredEdgeRows(concepts), MaxEdges)
    /\ steps = build_roadmap(Ascending(concepts), RowOrder(edges),
                   Ascending(remaining_concepts(Ascending(concepts), RowOrder(edges))), {})
    /\ mcq_sets = {}
    /\ progress = {}
    /\ attempts = <<>>
    /\ response = NoResponse
    /\ InitBeyondProgress

NextServices ==
    \/ GetStepMcqs
    \/ GradeAttempt
    \/ UpdateMastery
    \/ UnlockNextSteps
    \/ GetStep
    \/ GetRoadmapForDocument

SpecServices == InitServices /\ [][NextServices]_vars

----------------------------------------------------------------------------
(* A learner who follows the roadmap: the current step is asked for, its   *)
(* question set is requested, a passing attempt is submitted, and again.   *)
(* The response of one request decides the next one.                       *)

\* the loop of get_current_step over the roadmap: the first step that is
\* unlocked or locked
first_open(roadmap) ==
    LET open == {i \in DOMAIN roadmap : roadmap[i].status \in {"unlocked", "locked"}}
    IN IF open = {} THEN None ELSE roadmap[CHOOSE i \in open : \A j \in open : i <= j]

\* RoadmapService.get_current_step(document_id, user_id)
get_current_step == first_open(get_roadmap_for_document)

\* GET /api/roadmap/current/<doc_id>, at the start and after each attempt
LearnerAsksCurrentStep ==
    /\ response.op \in {"none", "grade_attempt"}
    /\ response' = [op |-> "get_current_step", step |-> get_current_step]
    /\ UNCHANGED <<concepts, edges, steps, mcq_sets, progress, attempts>>
    /\ UNCHANGED beyond_progress

\* GET /api/steps/<step_id>/mcqs for the step that was returned
LearnerRequestsMcqs ==
    /\ response.op = "get_current_step"
    /\ response.step # None
    /\ \E step \in steps, n \in QuestionCounts :
          /\ step.id = response.step.id
          /\ IF user_can_access_step(step)
             THEN /\ mcq_sets' = generate_mcq_set(step.id, n)
                  /\ response' = [op |-> "get_step_mcqs", id |-> step.id, code |-> 200]
             ELSE /\ mcq_sets' = mcq_sets
                  /\ response' = [op |-> "get_step_mcqs", id |-> step.id, code |-> 403]
    /\ UNCHANGED <<concepts, edges, steps, progress, attempts>>
    /\ UNCHANGED beyond_progress

\* POST /api/attempts/submit with enough right answers for the set received
LearnerPasses ==
    /\ response.op = "get_step_mcqs"
    /\ response.code = 200
    /\ \E m \in mcq_sets : \E answers \in AnswerSheets(m) :
          /\ m.roadmap_step_id = response.id
          /\ grade(m, answers).passed
          /\ grade_attempt(m.id, answers)

\* a document of three concepts whose roadmap build_roadmap made, in one of
\* the orders the store can return the rows in
InitLearner ==
    /\ concepts = ConceptIds
    /\ edges \in BoundedSubsets(StoredEdgeRows(concepts), MaxEdges)
    /\ \E cs \in Perms(concepts), es \in Perms(edges) :
          \E rs \in Perms(remaining_concepts(cs, es)) :
             steps = build_roadmap(cs, es, rs, {})
    /\ mcq_sets = {}
    /\ progress = {}
    /\ attempts = <<>>
    /\ response = NoResponse
    /\ InitBeyondProgress

NextLearner ==
    \/ LearnerAsksCurrentStep
    \/ LearnerRequestsMcqs
    \/ LearnerPasses

\* the learner goes on as long as there is a request to make
SpecLearner == InitLearner /\ [][NextLearner]_vars /\ WF_vars(NextLearner)

----------------------------------------------------------------------------
(* Question sets and attempts, passed or failed, in any order and up to    *)
(* three attempts, on a document of two concepts                           *)

\* POST /api/attempts/submit on any question set that exists
SubmitAttempt ==
    /\ Len(attempts) < MaxSubmissions
    /\ \E m \in mcq_sets : \E answers \in AnswerSheets(m) : grade_attempt(m.id, answers)

NextSubmissions ==
    \/ GetStepMcqs
    \/ SubmitAttempt

SpecSubmissions == InitServices /\ [][NextSubmissions]_vars

----------------------------------------------------------------------------
(* Grading alone: one step, one question set of up to MaxQuestions         *)
(* questions with any correct options, and every answer map over its       *)
(* question numbers and one number the set does not have                   *)

\* the answer maps: any subset of the question numbers 1..n+1 answered
AnswerMaps(n) ==
    UNION {[D -> Letters] : D \in SUBSET (1..(n + 1))}

GradeAnyAnswers ==
    /\ Len(attempts) < MaxGradeRuns
    /\ \E m \in mcq_sets : \E answers \in AnswerMaps(m.question_count) :
          grade_attempt(m.id, answers)

\* an id no question set has
unknown_set_id == CHOOSE id \in 1..(Cardinality(mcq_sets) + 1) : mcq_set_by_id(id) = None

\* grade_attempt for an id MCQSet.query.get finds no row for: ValueError,
\* raised before anything is added to the session
grade_attempt_not_found(mcq_set_id) ==
    [raised |-> "ValueError", message |-> <<"MCQ set not found", mcq_set_id>>]

\* submit_attempt's handler of every exception
submit_attempt_except(e) ==
    [status |-> 500, error |-> "Failed to grade attempt", details |-> e.message]

\* POST /api/attempts/submit with the id of no question set
SubmitUnknownSet ==
    /\ \E answers \in AnswerMaps(1) :
          response' = [op |-> "submit_attempt", mcq_set_id |-> unknown_set_id,
                       answers |-> answers, found |-> FALSE,
                       result |-> submit_attempt_except(grade_attempt_not_found(unknown_set_id))]
    /\ UNCHANGED <<concepts, edges, steps, mcq_sets, progress, attempts>>
    /\ UNCHANGED beyond_progress

InitGrade ==
    /\ concepts = {1}
    /\ edges = {}
    /\ steps = build_roadmap(<<1>>, <<>>, <<>>, {})
    /\ \E n \in 0..MaxQuestions : \E key \in [1..n -> StoredLetters] :
          mcq_sets = {[id |-> 1, roadmap_step_id |-> 1, question_count |-> n,
                       correct |-> key]}
    /\ progress = {}
    /\ attempts = <<>>
    /\ response = NoResponse
    /\ InitBeyondProgress

NextGrade ==
    \/ GradeAnyAnswers
    \/ SubmitUnknownSet

SpecGrade == InitGrade /\ [][NextGrade]_vars

----------------------------------------------------------------------------
(* One grade_attempt request, commit by commit.  The request works in its  *)
(* own database session: what it adds and changes is pending in the        *)
(* session until a commit writes it to the tables, which is all that       *)
(* other requests read.  unlock_next_steps and update_mastery each end     *)
(* with db.session.commit(), and grade_attempt ends with a third.          *)

\* the concept of the step the session's question set belongs to
session_concept(s) ==
    step_by_id(steps, mcq_set_by_id(s.mcq_set_id).roadmap_step_id).concept_id

\* grade_attempt up to the end of the writes of _update_step_progress: the
\* answers are graded, the Attempt is added and the step's row is written,
\* all pending in the session
BeginGrade ==
    /\ session.pc = "idle"
    /\ Len(attempts) < MaxAttempts
    /\ \E m \in mcq_sets : \E answers \in AnswerSheets(m) :
          LET g == grade(m, answers)
          IN session' = [pc |-> IF g.passed THEN "unlock_next_steps" ELSE "update_mastery",
                         mcq_set_id |-> m.id, answers |-> answers, result |-> g,
                         before |-> [progress |-> progress, attempts |-> attempts],
                         attempts |-> add_attempt(attempts, attempt_row(m.id, g)),
                         progress |-> write_step_progress(progress, m.roadmap_step_id,
                                                          g.score, g.passed)]
    /\ UNCHANGED <<concepts, edges, steps, mcq_sets, progress, attempts, response>>
    /\ UNCHANGED <<hints, hint_requests, llm_calls, vector_store, document>>

\* a passed attempt: unlock_next_steps unlocks the dependents and commits
CommitUnlock ==
    /\ session.pc = "unlock_next_steps"
    /\ LET rows == unlock_next_steps(session.progress, session_concept(session))
       IN /\ session' = [session EXCEPT !.pc = "update_mastery", !.progress = rows]
          /\ progress' = rows
          /\ attempts' = session.attempts
    /\ UNCHANGED <<concepts, edges, steps, mcq_sets, response>>
    /\ UNCHANGED <<hints, hint_requests, llm_calls, vector_store, document>>

\* update_mastery on the step's concept, and its commit
CommitMastery ==
    /\ session.pc = "update_mastery"
    /\ LET rows == update_mastery(session.progress, session_concept(session),
                                  session.result.score)
       IN /\ session' = [session EXCEPT !.pc = "commit", !.progress = rows]
          /\ progress' = rows
          /\ attempts' = session.attempts
    /\ UNCHANGED <<concepts, edges, steps, mcq_sets, response>>
    /\ UNCHANGED <<hints, hint_requests, llm_calls, vector_store, document>>

\* the commit of grade_attempt, and its result
CommitGrade ==
    /\ session.pc = "commit"
    /\ progress' = session.progress
    /\ attempts' = session.attempts
    /\ response' = [op |-> "grade_attempt", mcq_set_id |-> session.mcq_set_id,
                    answers |-> session.answers, result |-> session.result]
    /\ session' = NoSession
    /\ UNCHANGED <<concepts, edges, steps, mcq_sets>>
    /\ UNCHANGED <<hints, hint_requests, llm_calls, vector_store, document>>

\* the request fails part-way (the database refuses a statement, the worker
\* is stopped): submit_attempt answers 500 and what is pending in the
\* session is dropped with it
FailGrade ==
    /\ session.pc # "idle"
    /\ response' = [op |-> "grade_attempt", mcq_set_id |-> session.mcq_set_id, code |-> 500]
    /\ session' = NoSession
    /\ UNCHANGED <<concepts, edges, steps, mcq_sets, progress, attempts>>
    /\ UNCHANGED <<hints, hint_requests, llm_calls, vector_store, document>>

\* the requests of a learner, the readers running between the commits of a
\* submission
NextCommits ==
    \/ GetStepMcqs
    \/ BeginGrade
    \/ CommitUnlock
    \/ CommitMastery
    \/ CommitGrade
    \/ FailGrade
    \/ GetStep
    \/ GetRoadmapForDocument

SpecCommits == Init /\ [][NextCommits]_vars

----------------------------------------------------------------------------
(* Two calls at the same time, each in its own database session.  A call   *)
(* first reads the StepProgress rows that are committed, then works on     *)
(* what it read, and its INSERTs and UPDATEs reach the table when it       *)
(* flushes and commits; the other call may read or write in between.  The  *)
(* table has the constraint unique_user_step_progress: an INSERT of a row  *)
(* for a step that has a row by then is refused and the call raises.       *)

\* the two calls
Workers == {1, 2}

\* the question sets of the document: one for each step
ConcurrentMcqSets ==
    {[id |-> s.id, roadmap_step_id |-> s.id, question_count |-> n,
      correct |-> AnswerKey(n)] : s \in steps, n \in QuestionCounts}

\* the calls made at the same time
ConcurrentCalls ==
    UNION {{[op |-> "grade_attempt", mcq_set_id |-> m.id, answers |-> a] :
               a \in AnswerSheets(m)} : m \in ConcurrentMcqSets}
    \cup [op : {"update_mastery"}, concept_id : ServiceConceptIds, score : Scores]
    \cup [op : {"unlock_next_steps"}, cleared_concept_id : ServiceConceptIds]

\* the rows a call leaves in its session, having read the rows seen
rows_wanted(call, seen) ==
    IF call.op = "grade_attempt"
    THEN LET m == mcq_set_by_id(call.mcq_set_id)
         IN graded_progress(seen, m, grade(m, call.answers))
    ELSE IF call.op = "update_mastery"
    THEN update_mastery(seen, call.concept_id, call.score)
    ELSE unlock_next_steps(seen, call.cleared_concept_id)

\* the rows the session INSERTs: those of steps it saw no row of
inserted_rows(wanted, seen) ==
    {r \in wanted : progress_of_step(seen, r.roadmap_step_id) = None}

\* the unique constraint refuses one of the INSERTs on the table rows
insert_refused(rows, wanted, seen) ==
    \E r \in inserted_rows(wanted, seen) : progress_of_step(rows, r.roadmap_step_id) # None

\* the UPDATEs of the session on the table rows: the columns the session
\* changed are written, the others are left as they are
updated_rows(rows, wanted, seen) ==
    {LET old == progress_of_step(seen, r.roadmap_step_id)
         new == progress_of_step(wanted, r.roadmap_step_id)
     IN IF old = None THEN r
        ELSE [r EXCEPT
                !.status = IF new.status # old.status THEN new.status ELSE @,
                !.mastery_score = IF new.mastery_score # old.mastery_score
                                  THEN new.mastery_score ELSE @] : r \in rows}

\* the SELECTs of a call: it sees the rows committed so far
CallReads(w) ==
    /\ session[w].pc = "called"
    /\ session' = [session EXCEPT ![w] = [pc |-> "read", call |-> session[w].call,
                                          seen |-> progress]]
    /\ UNCHANGED <<concepts, edges, steps, mcq_sets, progress, attempts, response>>
    /\ UNCHANGED <<hints, hint_requests, llm_calls, vector_store, document>>

\* the flush and the commit of a call
CallWrites(w) ==
    /\ session[w].pc = "read"
    /\ LET call == session[w].call
           seen == session[w].seen
           wanted == rows_wanted(call, seen)
       IN IF insert_refused(progress, wanted, seen)
          THEN /\ session' = [session EXCEPT ![w] = [pc |-> "raised", call |-> call,
                                                     error |-> "IntegrityError"]]
               /\ UNCHANGED <<progress, attempts>>
          ELSE /\ session' = [session EXCEPT ![w] = [pc |-> "returned", call |-> call]]
               /\ progress' = updated_rows(progress, wanted, seen)
                                 \cup inserted_rows(wanted, seen)
               /\ attempts' =
                    IF call.op = "grade_attempt"
                    THEN add_attempt(attempts,
                             attempt_row(call.mcq_set_id,
                                         grade(mcq_set_by_id(call.mcq_set_id), call.answers)))
                    ELSE attempts
    /\ UNCHANGED <<concepts, edges, steps, mcq_sets, response>>
    /\ UNCHANGED <<hints, hint_requests, llm_calls, vector_store, document>>

\* a processed document of two concepts with its question sets, a learner
\* without progress rows, and two calls about to run
InitConcurrent ==
    /\ concepts = ServiceConceptIds
    /\ edges \in BoundedSubsets(StoredEdgeRows(concepts), MaxEdges)
    /\ steps = build_roadmap(Ascending(concepts), RowOrder(edges),
                   Ascending(remaining_concepts(Ascending(concepts), RowOrder(edges))), {})
    /\ mcq_sets = ConcurrentMcqSets
    /\ progress = {}
    /\ attempts = <<>>
    /\ response = NoResponse
    /\ session \in [Workers -> [pc : {"called"}, call : ConcurrentCalls]]
    /\ hints = <<>>
    /\ hint_requests = <<>>
    /\ llm_calls = 0
    /\ vector_store = NoIndexFiles
    /\ document = ProcessedDocument

NextConcurrent == \E w \in Workers : CallReads(w) \/ CallWrites(w)

SpecConcurrent == InitConcurrent /\ [][NextConcurrent]_vars

----------------------------------------------------------------------------
(* anti_spoonfeed: the hint policy.  A text is the sequence of its          *)
(* characters, each a one-character string; NL, RSquo, Ellipsis and        *)
(* Backtick stand for the line feed, the typographic apostrophe, the        *)
(* horizontal ellipsis and the backtick.  len() counts characters, so Len   *)
(* does.                                                                    *)

NL == "\n"
RSquo == "rsquo"
Ellipsis == "hellip"
Backtick == "backtick"

\* the characters \s matches and str.strip removes
Whitespace == {" ", NL, "\t"}

DecimalDigits == <<"0", "1", "2", "3", "4", "5", "6", "7", "8", "9">>

\* the characters \d matches
Digits == Range(DecimalDigits)

SmallLetters ==
    <<"a", "b", "c", "d", "e", "f", "g", "h", "i", "j", "k", "l", "m",
      "n", "o", "p", "q", "r", "s", "t", "u", "v", "w", "x", "y", "z">>

CapitalLetters ==
    <<"A", "B", "C", "D", "E", "F", "G", "H", "I", "J", "K", "L", "M",
      "N", "O", "P", "Q", "R", "S", "T", "U", "V", "W", "X", "Y", "Z">>

\* the characters \w matches
WordChars == Range(SmallLetters) \cup Range(CapitalLetters) \cup Digits \cup {"_"}

\* the small letter of each capital letter
SmallOf ==
    [c \in Range(CapitalLetters) |->
        SmallLetters[CHOOSE i \in DOMAIN CapitalLetters : CapitalLetters[i] = c]]

\* re.IGNORECASE: a capital letter counts as its small letter
casefold(c) == IF c \in DOMAIN SmallOf THEN SmallOf[c] ELSE c

\* the least and the greatest of a non-empty set of positions
least(S) == CHOOSE x \in S : \A y \in S : x <= y
greatest(S) == CHOOSE x \in S : \A y \in S : x >= y

\* the first position from i on whose character is not in S, Len(text) + 1 if none
skip(text, i, S) ==
    CHOOSE j \in i..(Len(text) + 1) :
        /\ (j = Len(text) + 1 \/ text[j] \notin S)
        /\ \A k \in i..(j - 1) : text[k] \in S

\* the first position from i on whose character is in S, Len(text) + 1 if none
find(text, i, S) ==
    CHOOSE j \in i..(Len(text) + 1) :
        /\ (j = Len(text) + 1 \/ text[j] \in S)
        /\ \A k \in i..(j - 1) : text[k] \notin S

\* str.rstrip, str.lstrip and str.strip
rstrip(text) ==
    SubSeq(text, 1, CHOOSE i \in 0..Len(text) :
                        /\ (i = 0 \/ text[i] \notin Whitespace)
                        /\ \A k \in (i + 1)..Len(text) : text[k] \in Whitespace)
lstrip(text) == SubSeq(text, skip(text, 1, Whitespace), Len(text))
strip(text) == rstrip(lstrip(text))

\* the literal lit (in small letters) stands at position i of text, whatever the case
matches_at(text, i, lit) ==
    /\ i >= 1
    /\ i + Len(lit) - 1 <= Len(text)
    /\ \A k \in 1..Len(lit) : casefold(text[i + k - 1]) = lit[k]

\* \b right before position i: a word character on exactly one side
word_at(text, i) == i >= 1 /\ i <= Len(text) /\ text[i] \in WordChars
boundary(text, i) == word_at(text, i - 1) # word_at(text, i)

\* where \b lit \b matches in text
occurrences(text, lit) ==
    {i \in 1..(Len(text) - Len(lit) + 1) :
        /\ matches_at(text, i, lit)
        /\ boundary(text, i)
        /\ boundary(text, i + Len(lit))}

\* no line feed from position i to position j: what .* can run over
same_line(text, i, j) == \A k \in i..j : text[k] # NL

\* _FINAL_PATTERNS, here(RSquo|')?s written out
FINAL_PATTERNS ==
    {<<"f", "i", "n", "a", "l", " ", "a", "n", "s", "w", "e", "r">>,
     <<"t", "h", "e", " ", "a", "n", "s", "w", "e", "r", " ", "i", "s">>,
     <<"h", "e", "r", "e", "s", " ", "t", "h", "e", " ", "s", "o", "l", "u",
       "t", "i", "o", "n">>,
     <<"h", "e", "r", "e", RSquo, "s", " ", "t", "h", "e", " ", "s", "o", "l",
       "u", "t", "i", "o", "n">>,
     <<"h", "e", "r", "e", "'", "s", " ", "t", "h", "e", " ", "s", "o", "l",
       "u", "t", "i", "o", "n">>,
     <<"c", "o", "m", "p", "l", "e", "t", "e", " ", "s", "o", "l", "u", "t",
       "i", "o", "n">>,
     <<"f", "u", "l", "l", " ", "s", "o", "l", "u", "t", "i", "o", "n">>,
     <<"h", "e", "r", "e", " ", "i", "s", " ", "t", "h", "e", " ", "f", "u",
       "l", "l">>,
     <<"f", "u", "l", "l", " ", "c", "o", "d", "e">>,
     <<"c", "o", "m", "p", "l", "e", "t", "e", " ", "c", "o", "d", "e">>,
     <<"e", "n", "t", "i", "r", "e", " ", "c", "o", "d", "e">>,
     <<"h", "e", "r", "e", "'", "s", " ", "t", "h", "e", " ", "c", "o", "d", "e">>,
     <<"t", "h", "i", "s", " ", "w", "i", "l", "l", " ", "s", "o", "l", "v", "e">>}

\* _contains_any_pattern(text, _FINAL_PATTERNS)
contains_final_pattern(text) ==
    \E lit \in FINAL_PATTERNS : occurrences(text, lit) # {}

\* ^ under re.MULTILINE: the start of the text and right after each line feed
line_starts(text) == {i \in 1..(Len(text) + 1) : i = 1 \/ text[i - 1] = NL}

\* ^\s*step\s*\d+\s*[:.)-] at the line start i
step_heading_at(text, i) ==
    LET a == skip(text, i, Whitespace)
        b == skip(text, a + 4, Whitespace)
        c == skip(text, b, Digits)
        d == skip(text, c, Whitespace)
    IN /\ matches_at(text, a, <<"s", "t", "e", "p">>)
       /\ c > b
       /\ d <= Len(text)
       /\ text[d] \in {":", ".", ")", "-"}

\* ^\s*\d+\s*[.)-]\s+ at the line start i
numbered_item_at(text, i) ==
    LET a == skip(text, i, Whitespace)
        c == skip(text, a, Digits)
        d == skip(text, c, Whitespace)
    IN /\ c > a
       /\ d + 1 <= Len(text)
       /\ text[d] \in {".", ")", "-"}
       /\ text[d + 1] \in Whitespace

\* \b a \b.*\b b \b: a, and b after it on the same line
in_a_line(text, a, b) ==
    \E i \in occurrences(text, a) : \E j \in occurrences(text, b) :
        i + Len(a) <= j /\ same_line(text, i, j)

\* q\.?e\.?d\.? written out
QedForms ==
    {<<"q", "e", "d">>,
     <<"q", ".", "e", "d">>,
     <<"q", "e", ".", "d">>,
     <<"q", ".", "e", ".", "d">>,
     <<"q", "e", "d", ".">>,
     <<"q", ".", "e", "d", ".">>,
     <<"q", "e", ".", "d", ".">>,
     <<"q", ".", "e", ".", "d", ".">>}

\* _contains_any_pattern(text, _STEP_PATTERNS)
contains_step_pattern(text) ==
    \/ \E i \in line_starts(text) : step_heading_at(text, i)
    \/ \E i \in line_starts(text) : numbered_item_at(text, i)
    \/ \E i \in occurrences(text, <<"f", "i", "r", "s", "t", ",">>) :
       \E j \in occurrences(text, <<"s", "e", "c", "o", "n", "d", ",">>) :
       \E k \in occurrences(text, <<"t", "h", "i", "r", "d", ",">>) :
           i + 6 <= j /\ j + 7 <= k /\ same_line(text, i, k)
    \/ in_a_line(text, <<"t", "h", "e", "r", "e", "f", "o", "r", "e">>, <<"t", "h", "u", "s">>)
    \/ \E lit \in QedForms : in_a_line(text, <<"p", "r", "o", "o", "f">>, lit)

\* where three backticks stand
fences(text) ==
    {i \in 1..(Len(text) - 2) : text[i] = Backtick /\ text[i + 1] = Backtick /\ text[i + 2] = Backtick}

\* the matches of _CODE_BLOCK_RE from position from on, left to right: from
\* a fence to the nearest fence after it
RECURSIVE code_blocks(_, _)
code_blocks(F, from) ==
    LET opening == {i \in F : i >= from}
    IN IF opening = {} THEN <<>>
       ELSE LET a == least(opening)
                closing == {i \in F : i >= a + 3}
            IN IF closing = {} THEN <<>>
               ELSE LET b == least(closing)
                    IN <<[first |-> a, last |-> b + 2]>> \o code_blocks(F, b + 3)

\* _CODE_BLOCK_RE.search(text)
has_code_block(text) == code_blocks(fences(text), 1) # <<>>

\* too long to be a hint: the length detect_solution_leakage flags
TOO_LONG == 2000

\* detect_solution_leakage(text): the reasons
leak_reasons(text) ==
    (IF contains_final_pattern(text) THEN <<"final_answer_language">> ELSE <<>>)
    \o (IF contains_step_pattern(text) THEN <<"step_by_step_solution">> ELSE <<>>)
    \o (IF has_code_block(text) THEN <<"code_block_present">> ELSE <<>>)
    \o (IF Len(text) > TOO_LONG THEN <<"too_long">> ELSE <<>>)

\* _CODE_BLOCK_RE.sub("", text): the text without the blocks bs[1..n]; the
\* blocks are taken last to first, so that the positions before stay
RECURSIVE remove_blocks(_, _, _)
remove_blocks(text, bs, n) ==
    IF n = 0 THEN text
    ELSE remove_blocks(SubSeq(text, 1, bs[n].first - 1)
                           \o SubSeq(text, bs[n].last + 1, Len(text)),
                       bs, n - 1)

\* the shortest inline code _INLINE_CODE_RE matches
LONG_INLINE_CODE == 20

\* what _strip_code_blocks puts for a long inline code
CODE_OMITTED ==
    <<Backtick, "[", "c", "o", "d", "e", " ", "o", "m", "i", "t", "t", "e",
      "d", "]", Backtick>>

\* _INLINE_CODE_RE.sub on text from position from on: a backtick, at least
\* LONG_INLINE_CODE characters other than a backtick, a backtick
RECURSIVE sub_inline_code(_, _)
sub_inline_code(text, from) ==
    LET a == find(text, from, {Backtick})
        b == find(text, a + 1, {Backtick})
    IN IF a > Len(text) \/ b > Len(text) THEN SubSeq(text, from, Len(text))
       ELSE IF b - a - 1 >= LONG_INLINE_CODE
       THEN SubSeq(text, from, a - 1) \o CODE_OMITTED \o sub_inline_code(text, b + 1)
       ELSE SubSeq(text, from, a) \o sub_inline_code(text, a + 1)

\* _strip_code_blocks(text): the text
strip_code_blocks(text) ==
    LET bs == code_blocks(fences(text), 1)
        new == remove_blocks(text, bs, Len(bs))
    IN sub_inline_code(new, 1)

\* what _shrink_code_blocks puts after a body it cut
SNIPPET_TRUNCATED ==
    <<NL, "#", " ", ".", ".", ".", "s", "n", "i", "p", "p", "e", "t", " ",
      "t", "r", "u", "n", "c", "a", "t", "e", "d", ".", ".", ".">>

\* the line feeds of a block
line_feeds(block) == {i \in DOMAIN block : block[i] = NL}

\* the body of a block of more than two lines: lines[1:-1] joined
block_body(block) ==
    SubSeq(block, least(line_feeds(block)) + 1, greatest(line_feeds(block)) - 1)

\* _shrink_code_blocks._repl: whether it cuts the body of the block
cuts_body(block, max_code_chars) ==
    /\ Cardinality(line_feeds(block)) >= 2
    /\ Len(block_body(block)) > max_code_chars

\* _shrink_code_blocks._repl(block)
shrunk_block(block, max_code_chars) ==
    IF cuts_body(block, max_code_chars)
    THEN SubSeq(block, 1, least(line_feeds(block)))
         \o rstrip(SubSeq(block_body(block), 1, max_code_chars)) \o SNIPPET_TRUNCATED
         \o SubSeq(block, greatest(line_feeds(block)), Len(block))
    ELSE block

\* _CODE_BLOCK_RE.sub(_repl, text): the blocks bs[1..n] shrunk, last to first
RECURSIVE shrink_blocks(_, _, _, _)
shrink_blocks(text, bs, n, max_code_chars) ==
    IF n = 0 THEN text
    ELSE shrink_blocks(SubSeq(text, 1, bs[n].first - 1)
                           \o shrunk_block(SubSeq(text, bs[n].first, bs[n].last),
                                           max_code_chars)
                           \o SubSeq(text, bs[n].last + 1, Len(text)),
                       bs, n - 1, max_code_chars)

\* _shrink_code_blocks(text, max_code_chars): the text, and whether a body was cut
shrink_code_blocks(text, max_code_chars) ==
    LET bs == code_blocks(fences(text), 1)
    IN [text |-> shrink_blocks(text, bs, Len(bs), max_code_chars),
        removed_any |-> \E n \in DOMAIN bs :
            cuts_body(SubSeq(text, bs[n].first, bs[n].last), max_code_chars)]

\* _truncate_text(text, max_chars): the text; it was cut iff it comes out changed
truncate_text(text, max_chars) ==
    IF Len(text) <= max_chars THEN text
    ELSE rstrip(SubSeq(text, 1, max_chars)) \o <<Ellipsis>>

\* int -> str, for a number that is not negative
RECURSIVE str_of_int(_)
str_of_int(n) ==
    IF n < 10 THEN <<DecimalDigits[n + 1]>>
    ELSE str_of_int(n \div 10) \o str_of_int(n % 10)

ABOUT ==
    <<" ", "a", "b", "o", "u", "t", " ", "*", "*">>

USED_ALL ==
    <<"Y", "o", "u", RSquo, "v", "e", " ", "u", "s", "e", "d", " ", "a",
      "l", "l", " ">>

HINTS ==
    <<" ", "h", "i", "n", "t", "s">>

TRY_AGAIN ==
    <<".", " ", "T", "r", "y", " ", "a", "t", "t", "e", "m", "p", "t", "i",
      "n", "g", " ", "t", "h", "e", " ", "M", "C", "Q", "s", " ", "a", "g",
      "a", "i", "n", ",", " ", "a", "n", "d", " ", "t", "e", "l", "l", " ",
      "m", "e", " ", "w", "h", "i", "c", "h", " ", "o", "p", "t", "i", "o",
      "n", " ", "c", "o", "n", "f", "u", "s", "e", "d", " ", "y", "o", "u",
      ".">>

CANNOT_GIVE ==
    <<"I", " ", "c", "a", "n", RSquo, "t", " ", "g", "i", "v", "e", " ",
      "a", " ", "f", "u", "l", "l", " ", "s", "o", "l", "u", "t", "i", "o",
      "n">>

BUT_GUIDE ==
    <<",", " ", "b", "u", "t", " ", "I", " ", "c", "a", "n", " ", "g", "u",
      "i", "d", "e", " ", "y", "o", "u", ".", NL, NL, "H", "e", "r", "e",
      RSquo, "s", " ", "a", " ", "h", "i", "n", "t", ":", " ", "i", "d",
      "e", "n", "t", "i", "f", "y", " ", "t", "h", "e", " ", "*", "k", "e",
      "y", " ", "i", "d", "e", "a", "*", " ", "a", "n", "d", " ", "a", "p",
      "p", "l", "y", " ", "i", "t", " ", "t", "o", " ", "a", " ", "s", "m",
      "a", "l", "l", " ", "e", "x", "a", "m", "p", "l", "e", ".", NL, "M",
      "i", "c", "r", "o", "-", "q", "u", "e", "s", "t", "i", "o", "n", ":",
      " ", "W", "h", "a", "t", " ", "i", "s", " ", "t", "h", "e", " ", "*",
      "f", "i", "r", "s", "t", " ", "s", "t", "e", "p", "*", " ", "y", "o",
      "u", " ", "w", "o", "u", "l", "d", " ", "t", "a", "k", "e", ",", " ",
      "a", "n", "d", " ", "w", "h", "y", "?">>

NEXT_STEP ==
    <<NL, NL, "M", "i", "c", "r", "o", "-", "q", "u", "e", "s", "t", "i",
      "o", "n", ":", " ", "W", "h", "a", "t", " ", "d", "o", " ", "y", "o",
      "u", " ", "t", "h", "i", "n", "k", " ", "i", "s", " ", "t", "h", "e",
      " ", "n", "e", "x", "t", " ", "s", "t", "e", "p", "?">>

\* build_safe_hint_fallback(hint_no, hint_limit, topic); no topic is <<>>, as
\* None and "" go the same way
build_safe_hint_fallback(hint_no, hint_limit, topic) ==
    LET t == IF topic # <<>> THEN ABOUT \o topic \o <<"*", "*">> ELSE <<>>
    IN IF hint_no >= hint_limit
       THEN USED_ALL \o str_of_int(hint_limit) \o HINTS \o t \o TRY_AGAIN
       ELSE CANNOT_GIVE \o t \o BUT_GUIDE

\* the first two separators \n\s*\n of re.split: each runs from a line feed
\* to the last line feed of the white space that follows it
separator_from(text, from) ==
    LET starts == {p \in from..Len(text) :
                      /\ text[p] = NL
                      /\ \E r \in (p + 1)..(skip(text, p, Whitespace) - 1) : text[r] = NL}
    IN IF starts = {} THEN None
       ELSE LET p == least(starts)
            IN [first |-> p,
                last |-> greatest({r \in (p + 1)..(skip(text, p, Whitespace) - 1) :
                                      text[r] = NL})]

\* "\n\n".join(re.split(r"\n\s*\n", text)[:2])
first_two_paragraphs(text) ==
    LET s1 == separator_from(text, 1)
    IN IF s1 = None THEN text
       ELSE LET s2 == separator_from(text, s1.last + 1)
                upto == IF s2 = None THEN Len(text) ELSE s2.first - 1
            IN SubSeq(text, 1, s1.first - 1) \o <<NL, NL>>
               \o SubSeq(text, s1.last + 1, upto)

\* re.search(r"[?]\s*$", text)
ends_with_question(text) ==
    LET t == rstrip(text) IN t # <<>> /\ t[Len(t)] = "?"

\* the phrases exam mode removes: final answer|the answer is|solution
ANSWER_PHRASES ==
    {<<"f", "i", "n", "a", "l", " ", "a", "n", "s", "w", "e", "r">>,
     <<"t", "h", "e", " ", "a", "n", "s", "w", "e", "r", " ", "i", "s">>,
     <<"s", "o", "l", "u", "t", "i", "o", "n">>}

\* re.sub(r"(?i)\b(final answer|the answer is|solution)\b.*", "", text) from
\* position from on: from each match to the end of its line
RECURSIVE cut_answer_phrases(_, _, _)
cut_answer_phrases(text, M, from) ==
    LET ms == {i \in M : i >= from}
    IN IF ms = {} THEN SubSeq(text, from, Len(text))
       ELSE SubSeq(text, from, least(ms) - 1)
            \o cut_answer_phrases(text, M, find(text, least(ms), {NL}))

\* the longest text exam mode lets through
EXAM_MODE_CHARS == 500

min(a, b) == IF a <= b THEN a ELSE b

\* enforce_hint_policy under cfg.exam_mode_definitions_only
enforce_exam_mode(model_text, cfg, hint_no, topic) ==
    LET stripped == strip_code_blocks(model_text)
        cut == truncate_text(stripped, min(cfg.max_hint_chars, EXAM_MODE_CHARS))
        M == UNION {occurrences(cut, lit) : lit \in ANSWER_PHRASES}
        text == strip(cut_answer_phrases(cut, M, 1))
    IN IF text = <<>>
       THEN [ok |-> TRUE, text |-> build_safe_hint_fallback(hint_no, cfg.hint_limit, topic),
             reasons |-> <<"exam_mode_sanitized">>, truncated |-> TRUE,
             code_removed |-> FALSE, violation |-> FALSE]
       ELSE [ok |-> TRUE, text |-> text,
             reasons |-> <<"exam_mode_sanitized">>,
             truncated |-> Len(stripped) > min(cfg.max_hint_chars, EXAM_MODE_CHARS),
             code_removed |-> stripped # model_text, violation |-> FALSE]

\* hint mode, the handling of code: the text, and code_removed
handle_code(text, cfg) ==
    IF has_code_block(text)
    THEN IF ~cfg.allow_code_in_hints
         THEN [text |-> strip_code_blocks(text),
               code_removed |-> strip_code_blocks(text) # text]
         ELSE [text |-> shrink_code_blocks(text, cfg.max_code_chars).text,
               code_removed |-> shrink_code_blocks(text, cfg.max_code_chars).removed_any]
    ELSE [text |-> text, code_removed |-> FALSE]

\* hint mode, whether the step-by-step trimming applies to the text
trims_steps(text, cfg) ==
    cfg.block_step_by_step_in_hint_mode /\ contains_step_pattern(text)

\* hint mode, the text after the sanitization: code handled, steps trimmed,
\* length cut, micro-question appended
sanitized_text(model_text, cfg) ==
    LET coded == handle_code(model_text, cfg).text
        trimmed == IF trims_steps(coded, cfg)
                   THEN strip(first_two_paragraphs(coded))
                   ELSE coded
        cut == truncate_text(strip(trimmed), cfg.max_hint_chars)
    IN IF ~ends_with_question(cut) THEN rstrip(cut) \o NEXT_STEP ELSE cut

\* hint mode, the violation flag before the final gate
violation_found(model_text, cfg) ==
    \/ leak_reasons(model_text) # <<>>
    \/ cfg.block_final_answers_in_hint_mode /\ contains_final_pattern(model_text)
    \/ trims_steps(handle_code(model_text, cfg).text, cfg)

\* the final gate: whether the sanitized text is replaced by the fallback
replaces_text(violation, text, cfg) ==
    /\ violation /\ cfg.replace_on_violation
    /\ (contains_final_pattern(text) \/ Len(text) > cfg.max_hint_chars)

\* enforce_hint_policy(model_text, cfg, hint_no = hint_no, topic = topic)
enforce_hint_policy(model_text, cfg, hint_no, topic) ==
    IF cfg.exam_mode_definitions_only
    THEN enforce_exam_mode(model_text, cfg, hint_no, topic)
    ELSE LET coded == handle_code(model_text, cfg)
             trimmed == IF trims_steps(coded.text, cfg)
                        THEN strip(first_two_paragraphs(coded.text))
                        ELSE coded.text
             violation == violation_found(model_text, cfg)
             reasons == leak_reasons(model_text)
                        \o (IF trims_steps(coded.text, cfg)
                            THEN <<"step_by_step_trimmed">> ELSE <<>>)
             text == sanitized_text(model_text, cfg)
         IN IF replaces_text(violation, text, cfg)
            THEN [ok |-> TRUE,
                  text |-> build_safe_hint_fallback(hint_no, cfg.hint_limit, topic),
                  reasons |-> reasons \o <<"replaced_due_to_violation">>,
                  truncated |-> TRUE, code_removed |-> coded.code_removed,
                  violation |-> TRUE]
            ELSE [ok |-> TRUE, text |-> text, reasons |-> reasons,
                  truncated |-> Len(strip(trimmed)) > cfg.max_hint_chars,
                  code_removed |-> coded.code_removed, violation |-> violation]

\* can_provide_hint without the lower limit
can_provide_hint_upto(hint_no, cfg) == hint_no <= cfg.hint_limit

\* can_provide_hint(hint_no, cfg)
can_provide_hint(hint_no, cfg) == 1 <= hint_no /\ hint_no <= cfg.hint_limit

-----------------------------------------------------------------------------
(* TutorService.get_hint and the route tutor_hint.  A Hint row keeps the   *)
(* step and the hint number the caller passed.  get_hint counts the rows,  *)
(* asks the generator for a hint and then stores a row: other requests     *)
(* may run between the count, the generation and the store.                *)

\* Config.MAX_HINTS_PER_STEP
MAX_HINTS_PER_STEP == 3

\* tutor_routes.HINT_LIMIT_DEFAULT, what _hint_limit() returns without an override
HINT_LIMIT_DEFAULT == 3

\* how many get_hint calls are made
MaxHintRequests == 4

\* the step of the document, and an id no step has
HintStepIds == {1, 2}

\* the hint numbers a caller of get_hint passes
HintNumberArgs == 0..(MAX_HINTS_PER_STEP + 1)

\* Hint.query.filter_by(user_id, roadmap_step_id).count()
existing_hints(tbl, roadmap_step_id) ==
    Cardinality({i \in DOMAIN tbl : tbl[i].roadmap_step_id = roadmap_step_id})

\* get_hint that stops only above the maximum
hint_limit_reached_above(existing) == existing > MAX_HINTS_PER_STEP

\* get_hint: existing_hints >= Config.MAX_HINTS_PER_STEP
hint_limit_reached(existing) == existing >= MAX_HINTS_PER_STEP

\* get_hint up to the call of the generator: the error returned, the error
\* raised, or the count the request goes on with
get_hint_checks(tbl, stps, roadmap_step_id, hint_number) ==
    LET existing == existing_hints(tbl, roadmap_step_id)
    IN IF hint_limit_reached(existing)
       THEN [error |-> "maximum_hints", hint_count |-> existing]
       ELSE IF hint_number > MAX_HINTS_PER_STEP
       THEN [error |-> "hint_number", hint_number |-> hint_number]
       ELSE IF step_by_id(stps, roadmap_step_id) = None
       THEN [raised |-> "ValueError"]
       ELSE [existing_hints |-> existing]

\* whether get_hint returned or raised before the generator was called
stops(checked) == "existing_hints" \notin DOMAIN checked

\* get_hint(user_id, roadmap_step_id, hint_number), from the count of the
\* rows to the lookup of the step
GetHint ==
    /\ Len(hint_requests) < MaxHintRequests
    /\ \E roadmap_step_id \in HintStepIds, hint_number \in HintNumberArgs :
          LET checked == get_hint_checks(hints, steps, roadmap_step_id, hint_number)
          IN IF stops(checked)
             THEN /\ hint_requests' = Append(hint_requests, [pc |-> "done"])
                  /\ response' = [op |-> "get_hint", roadmap_step_id |-> roadmap_step_id,
                                  hint_number |-> hint_number, result |-> checked]
             ELSE /\ hint_requests' = Append(hint_requests,
                          [pc |-> "generate_hint", roadmap_step_id |-> roadmap_step_id,
                           hint_number |-> hint_number,
                           existing_hints |-> checked.existing_hints])
                  /\ UNCHANGED response
    /\ UNCHANGED <<concepts, edges, steps, mcq_sets, progress, attempts>>
    /\ UNCHANGED <<session, hints, llm_calls, vector_store, document>>

\* get_hint: self.llm_client.generate_hint(...), and the filter on its text
GenerateHint ==
    \E i \in DOMAIN hint_requests :
        /\ hint_requests[i].pc = "generate_hint"
        /\ llm_calls' = llm_calls + 1
        /\ hint_requests' = [hint_requests EXCEPT ![i].pc = "store"]
        /\ UNCHANGED <<concepts, edges, steps, mcq_sets, progress, attempts, response>>
        /\ UNCHANGED <<session, hints, vector_store, document>>

\* get_hint: the Hint row is added and committed, the hint is returned
StoreHint ==
    \E i \in DOMAIN hint_requests :
        LET r == hint_requests[i]
        IN /\ r.pc = "store"
           /\ hints' = Append(hints, [roadmap_step_id |-> r.roadmap_step_id,
                                      hint_number |-> r.hint_number])
           /\ hint_requests' = [hint_requests EXCEPT ![i] = [pc |-> "done"]]
           /\ response' = [op |-> "get_hint", roadmap_step_id |-> r.roadmap_step_id,
                           hint_number |-> r.hint_number,
                           result |-> [hint_number |-> r.hint_number,
                                       hints_remaining |->
                                           MAX_HINTS_PER_STEP - (r.existing_hints + 1)]]
           /\ UNCHANGED <<concepts, edges, steps, mcq_sets, progress, attempts>>
           /\ UNCHANGED <<session, llm_calls, vector_store, document>>

\* tutor_hint's answer: hint_no below 1 is refused, hint_no above the limit is
\* blocked, and for the others the route calls
\* TutorService.generate_socratic_hint, which TutorService does not have:
\* the AttributeError is caught by the route's last handler
tutor_hint(hint_no, limit) ==
    IF hint_no < 1
    THEN [status |-> 400, ok |-> FALSE, code |-> "VALIDATION_ERROR"]
    ELSE IF hint_no > limit
    THEN [status |-> 200, ok |-> TRUE, hint_no |-> hint_no, hint_limit |-> limit,
          blocked |-> TRUE]
    ELSE [status |-> 500, ok |-> FALSE, code |-> "INTERNAL_ERROR"]

\* POST /api/tutor/hint
TutorHint ==
    /\ \E hint_no \in HintNumberArgs :
          response' = [op |-> "tutor_hint", hint_no |-> hint_no,
                       result |-> tutor_hint(hint_no, HINT_LIMIT_DEFAULT)]
    /\ UNCHANGED <<concepts, edges, steps, mcq_sets, progress, attempts>>
    /\ UNCHANGED beyond_progress

\* a document with one step, and no hint given yet
InitTutor ==
    /\ concepts = {1}
    /\ edges = {}
    /\ steps = build_roadmap(<<1>>, <<>>, <<>>, {})
    /\ mcq_sets = {}
    /\ progress = {}
    /\ attempts = <<>>
    /\ response = NoResponse
    /\ InitBeyondProgress

NextTutor == GetHint \/ GenerateHint \/ StoreHint \/ TutorHint

SpecTutor == InitTutor /\ [][NextTutor]_vars

-----------------------------------------------------------------------------
(* The notes of a step: TutorService.should_unlock_notes behind            *)
(* GET /api/steps/<step_id>/notes, next to the question sets and the       *)
(* graded attempts of a document of two concepts                           *)

\* get_hint_count(user_id, roadmap_step_id)
get_hint_count(tbl, roadmap_step_id) == existing_hints(tbl, roadmap_step_id)

\* should_unlock_notes(user_id, roadmap_step_id)
should_unlock_notes(rows, tbl, roadmap_step_id) ==
    LET p == progress_of_step(rows, roadmap_step_id)
    IN IF p = None THEN FALSE
       ELSE IF p.mastery_score # None /\ ~Geq(p.mastery_score, MCQ_THRESHOLD_SCORE) THEN TRUE
       ELSE IF get_hint_count(tbl, roadmap_step_id) >= MAX_HINTS_PER_STEP THEN TRUE
       ELSE FALSE

\* GET /api/steps/<step_id>/notes
GetStepNotes ==
    /\ \E st \in steps :
          response' = [op |-> "get_step_notes", id |-> st.id,
                       code |-> IF should_unlock_notes(progress, hints, st.id)
                                THEN 200 ELSE 403]
    /\ UNCHANGED <<concepts, edges, steps, mcq_sets, progress, attempts>>
    /\ UNCHANGED beyond_progress

\* the Hint rows after n1 hints were given on step 1 and n2 on step 2, one
\* get_hint after the other
hints_given(n1, n2) ==
    [i \in 1..(n1 + n2) |->
        IF i <= n1 THEN [roadmap_step_id |-> 1, hint_number |-> i]
        ELSE [roadmap_step_id |-> 2, hint_number |-> i - n1]]

\* a processed document of two concepts whose learner has taken some of the
\* hints of its steps and has submitted nothing yet
InitNotes ==
    /\ concepts = ServiceConceptIds
    /\ edges \in BoundedSubsets(StoredEdgeRows(concepts), MaxEdges)
    /\ steps = build_roadmap(Ascending(concepts), RowOrder(edges),
                   Ascending(remaining_concepts(Ascending(concepts), RowOrder(edges))), {})
    /\ mcq_sets = {}
    /\ progress = {}
    /\ attempts = <<>>
    /\ response = NoResponse
    /\ session = NoSession
    /\ \E n1, n2 \in 0..MAX_HINTS_PER_STEP : hints = hints_given(n1, n2)
    /\ hint_requests = <<>>
    /\ llm_calls = Len(hints)
    /\ vector_store = NoIndexFiles
    /\ document = ProcessedDocument

NextNotes ==
    \/ GetStepMcqs
    \/ GradeAttempt
    \/ GetStepNotes

SpecNotes == InitNotes /\ [][NextNotes]_vars

-----------------------------------------------------------------------------
(* VectorStoreService: the index of one document.  build_index writes the  *)
(* index file and then the chunk-id array; search reads both.  The index   *)
(* file is modelled by the number of vectors it holds, the array by the    *)
(* chunk ids; distances are left out of the results.                       *)

\* Config.RAG_TOP_K
RAG_TOP_K == 5

\* how many chunks a document has at most
MaxChunks == 2

\* the chunks handed to build_index: rows of the Chunk table, so no id twice,
\* each with or without an embedding
ChunkLists ==
    {chunks \in UNION {[1..n -> [id : 1..MaxChunks, embedding : BOOLEAN]] : n \in 0..MaxChunks} :
        \A i, j \in DOMAIN chunks : i # j => chunks[i].id # chunks[j].id}

\* build_index: chunk_ids, the ids of the chunks that have an embedding
RECURSIVE chunk_ids_of(_)
chunk_ids_of(chunks) ==
    IF chunks = <<>> THEN <<>>
    ELSE IF Head(chunks).embedding
    THEN <<Head(chunks).id>> \o chunk_ids_of(Tail(chunks))
    ELSE chunk_ids_of(Tail(chunks))

\* build_index that goes on when no chunk has an embedding
build_index_skips_no_chunks_only(store, chunks) ==
    \/ ~store.faiss
    \/ chunks = <<>>

\* build_index returns before it writes: no faiss, no chunks, no embeddings
build_index_skips(store, chunks) ==
    \/ ~store.faiss
    \/ chunks = <<>>
    \/ chunk_ids_of(chunks) = <<>>

\* build_index(document_id, chunks) up to faiss.write_index: the index file
\* is written, the chunk-id array is still to be saved
BuildIndex ==
    /\ vector_store.build = None
    /\ \E chunks \in ChunkLists :
          IF build_index_skips(vector_store, chunks)
          THEN /\ response' = [op |-> "build_index", chunks |-> chunks]
               /\ UNCHANGED vector_store
          ELSE /\ vector_store' = [vector_store EXCEPT
                                      !.index = [ntotal |-> Len(chunk_ids_of(chunks))],
                                      !.build = [chunks |-> chunks,
                                                 chunk_ids |-> chunk_ids_of(chunks)]]
               /\ UNCHANGED response
    /\ UNCHANGED <<concepts, edges, steps, mcq_sets, progress, attempts>>
    /\ UNCHANGED <<session, hints, hint_requests, llm_calls, document>>

\* build_index: np.save of the chunk-id array, and the return
SaveChunkMap ==
    /\ vector_store.build # None
    /\ vector_store' = [vector_store EXCEPT
                           !.chunk_map = [chunk_ids |-> vector_store.build.chunk_ids],
                           !.build = None]
    /\ response' = [op |-> "build_index", chunk_ids |-> vector_store.build.chunk_ids]
    /\ UNCHANGED <<concepts, edges, steps, mcq_sets, progress, attempts>>
    /\ UNCHANGED <<session, hints, hint_requests, llm_calls, document>>

\* index.search: the positions of the top_k nearest vectors in the order the
\* index ranks them, filled with -1 where the index holds fewer than top_k
nearest(ranking, top_k) ==
    [i \in 1..top_k |-> IF i <= Len(ranking) THEN ranking[i] ELSE -1]

\* chunk_ids[idx], a negative idx counting from the end
at_index(chunk_ids, idx) ==
    IF idx >= 0 THEN chunk_ids[idx + 1] ELSE chunk_ids[Len(chunk_ids) + idx + 1]

\* search: the loop over the positions found
RECURSIVE results_of_search(_, _)
results_of_search(indices, chunk_ids) ==
    IF indices = <<>> THEN <<>>
    ELSE IF Head(indices) < Len(chunk_ids)
    THEN <<[chunk_id |-> at_index(chunk_ids, Head(indices))]>>
             \o results_of_search(Tail(indices), chunk_ids)
    ELSE results_of_search(Tail(indices), chunk_ids)

\* search that reads the files whenever the index file is there
search_lacks_index_only(store) == ~store.faiss \/ store.index = None

\* search returns [] before it reads: no faiss, or one of the files missing
search_lacks_index(store) ==
    ~store.faiss \/ store.index = None \/ store.chunk_map = None

\* search(document_id, query_embedding, top_k): ranking is the order in which
\* the index ranks its vectors for the query; np.load of a missing file raises
search(store, ranking, top_k) ==
    IF search_lacks_index(store) THEN [results |-> <<>>]
    ELSE IF store.chunk_map = None THEN [raised |-> "FileNotFoundError"]
    ELSE [results |-> results_of_search(nearest(ranking, top_k),
                                        store.chunk_map.chunk_ids)]

\* the orders in which an index of n vectors can rank them: positions from 0
Rankings(n) ==
    {r \in [1..n -> 0..(n - 1)] : \A i, j \in 1..n : i # j => r[i] # r[j]}

\* the top_k a caller passes: one result, or the default Config.RAG_TOP_K
TopKs == {1, RAG_TOP_K}

\* search(document_id, query_embedding, top_k)
Search ==
    /\ \E ranking \in Rankings(IF vector_store.index = None THEN 0 ELSE vector_store.index.ntotal),
          top_k \in TopKs :
          response' = [op |-> "search", store |-> vector_store, top_k |-> top_k,
                       result |-> search(vector_store, ranking, top_k)]
    /\ UNCHANGED <<concepts, edges, steps, mcq_sets, progress, attempts>>
    /\ UNCHANGED beyond_progress

\* no document processed, no index files; faiss installed or not
InitVectorStore ==
    /\ concepts = {}
    /\ edges = {}
    /\ steps = {}
    /\ mcq_sets = {}
    /\ progress = {}
    /\ attempts = <<>>
    /\ response = NoResponse
    /\ session = NoSession
    /\ hints = <<>>
    /\ hint_requests = <<>>
    /\ llm_calls = 0
    /\ \E faiss \in BOOLEAN : vector_store = [NoIndexFiles EXCEPT !.faiss = faiss]
    /\ document = ProcessedDocument

NextVectorStore == BuildIndex \/ SaveChunkMap \/ Search

SpecVectorStore == InitVectorStore /\ [][NextVectorStore]_vars

-----------------------------------------------------------------------------
(* IngestService.process_document: the stages run one after the other in   *)
(* one call.  document.pc is the stage the call is about to run and        *)
(* document.called the stages it has called so far.  What a stage gets     *)
(* from the parser or the language model is chosen freely.                 *)

\* process_document that builds the index before the embeddings are made
stage_after_index_first(stage) ==
    IF stage = "chunk" THEN "index"
    ELSE IF stage = "index" THEN "embed"
    ELSE IF stage = "embed" THEN "extract_concepts"
    ELSE LET i == CHOOSE i \in DOMAIN Stages : Stages[i] = stage
         IN IF i < Len(Stages) THEN Stages[i + 1] ELSE "ready"

\* the stage process_document calls after a stage has returned; after the
\* last one it marks the document ready
stage_after(stage) ==
    LET i == CHOOSE i \in DOMAIN Stages : Stages[i] = stage
    IN IF i < Len(Stages) THEN Stages[i + 1] ELSE "ready"

\* the file types an upload can have
FileTypes == {"pdf", "pptx", "docx"}

\* the Document row docs_routes.upload_document creates before it calls
\* process_document
UploadedDocument(file_type) ==
    [status |-> "processing", error_message |-> None, file_type |-> file_type,
     pc |-> Stages[1], called |-> <<>>, chunks |-> <<>>]

\* the concepts extract_concepts can store for a document
IngestConceptIds == {1, 2}

\* create_chunks: the rows it adds, ids ascending, no embedding yet
NewChunkLists ==
    {[i \in 1..n |-> [id |-> i, embedding |-> FALSE]] : n \in 0..MaxChunks}

\* generate_embeddings: every chunk gets an embedding
generate_embeddings(chunks) == [i \in DOMAIN chunks |-> [chunks[i] EXCEPT !.embedding = TRUE]]

\* build_index(document_id, chunks) from its first line to its return
build_index(store, chunks) ==
    IF build_index_skips(store, chunks) THEN store
    ELSE [store EXCEPT !.index = [ntotal |-> Len(chunk_ids_of(chunks))],
                       !.chunk_map = [chunk_ids |-> chunk_ids_of(chunks)]]

\* the except clause of process_document that does not raise again
stage_failed_goes_on(doc, stage, message) ==
    [doc EXCEPT !.status = "error", !.error_message = [str |-> message],
                !.called = Append(doc.called, stage), !.pc = stage_after(stage)]

\* the except clause of process_document: the status and the message are
\* stored, the exception is raised again
stage_failed(doc, stage, message) ==
    [doc EXCEPT !.status = "error", !.error_message = [str |-> message],
                !.called = Append(doc.called, stage), !.pc = "raised"]

\* a stage that has returned
stage_returned(doc, stage) ==
    [doc EXCEPT !.called = Append(doc.called, stage), !.pc = stage_after(stage)]

\* 1. extract text: only a pdf is parsed
ExtractText ==
    /\ document.pc = "extract"
    /\ document.file_type = "pdf"
    /\ document' = stage_returned(document, "extract")
    /\ UNCHANGED <<concepts, edges, steps, mcq_sets, progress, attempts, response>>
    /\ UNCHANGED <<session, hints, hint_requests, llm_calls, vector_store>>

\* 1. extract text: raise ValueError for the other file types
ExtractUnsupported ==
    /\ document.pc = "extract"
    /\ document.file_type # "pdf"
    /\ document' = stage_failed(document, "extract", <<"file type not yet supported", document.file_type>>)
    /\ response' = [op |-> "process_document", raised |-> <<"file type not yet supported", document.file_type>>]
    /\ UNCHANGED <<concepts, edges, steps, mcq_sets, progress, attempts>>
    /\ UNCHANGED <<session, hints, hint_requests, llm_calls, vector_store>>

\* 2. chunk text
CreateChunks ==
    /\ document.pc = "chunk"
    /\ \E chunks \in NewChunkLists :
          document' = [stage_returned(document, "chunk") EXCEPT !.chunks = chunks]
    /\ UNCHANGED <<concepts, edges, steps, mcq_sets, progress, attempts, response>>
    /\ UNCHANGED <<session, hints, hint_requests, llm_calls, vector_store>>

\* 3. generate embeddings
GenerateEmbeddings ==
    /\ document.pc = "embed"
    /\ document' = [stage_returned(document, "embed") EXCEPT
                       !.chunks = generate_embeddings(document.chunks)]
    /\ UNCHANGED <<concepts, edges, steps, mcq_sets, progress, attempts, response>>
    /\ UNCHANGED <<session, hints, hint_requests, llm_calls, vector_store>>

\* 4. build the index
IndexChunks ==
    /\ document.pc = "index"
    /\ vector_store' = build_index(vector_store, document.chunks)
    /\ document' = stage_returned(document, "index")
    /\ UNCHANGED <<concepts, edges, steps, mcq_sets, progress, attempts, response>>
    /\ UNCHANGED <<session, hints, hint_requests, llm_calls>>

\* 5. extract concepts: the rows are added to the Concept table
ExtractConcepts ==
    /\ document.pc = "extract_concepts"
    /\ \E cs \in SUBSET IngestConceptIds : concepts' = concepts \cup cs
    /\ document' = stage_returned(document, "extract_concepts")
    /\ UNCHANGED <<edges, steps, mcq_sets, progress, attempts, response>>
    /\ UNCHANGED <<session, hints, hint_requests, llm_calls, vector_store>>

\* 6. infer prerequisites: edges between the document's concepts are added
InferPrerequisites ==
    /\ document.pc = "infer_prerequisites"
    /\ \E es \in BoundedSubsets(StoredEdgeRows(concepts), MaxEdges) : edges' = edges \cup es
    /\ document' = stage_returned(document, "infer_prerequisites")
    /\ UNCHANGED <<concepts, steps, mcq_sets, progress, attempts, response>>
    /\ UNCHANGED <<session, hints, hint_requests, llm_calls, vector_store>>

\* 7. build the roadmap (without concepts build_roadmap raises: StageRaises)
BuildDocumentRoadmap ==
    /\ document.pc = "build_roadmap"
    /\ concepts # {}
    /\ \E cs \in Perms(concepts), es \in Perms(edges) :
          \E rs \in Perms(remaining_concepts(cs, es)) :
             steps' = build_roadmap(cs, es, rs, steps)
    /\ document' = stage_returned(document, "build_roadmap")
    /\ UNCHANGED <<concepts, edges, mcq_sets, progress, attempts, response>>
    /\ UNCHANGED <<session, hints, hint_requests, llm_calls, vector_store>>

\* 8. mark the document as ready, and return
MarkReady ==
    /\ document.pc = "ready"
    /\ document' = [document EXCEPT !.status = "ready", !.pc = "returned"]
    /\ response' = [op |-> "process_document", returned |-> TRUE]
    /\ UNCHANGED <<concepts, edges, steps, mcq_sets, progress, attempts>>
    /\ UNCHANGED <<session, hints, hint_requests, llm_calls, vector_store>>

\* the stage the call is in raises (the parser, the model, the store)
StageRaises ==
    /\ \E i \in DOMAIN Stages : Stages[i] = document.pc
    /\ document' = stage_failed(document, document.pc, <<"raised in", document.pc>>)
    /\ response' = [op |-> "process_document", raised |-> <<"raised in", document.pc>>]
    /\ UNCHANGED <<concepts, edges, steps, mcq_sets, progress, attempts>>
    /\ UNCHANGED <<session, hints, hint_requests, llm_calls, vector_store>>

\* an uploaded document, nothing of it processed; faiss installed or not
InitIngest ==
    /\ concepts = {}
    /\ edges = {}
    /\ steps = {}
    /\ mcq_sets = {}
    /\ progress = {}
    /\ attempts = <<>>
    /\ response = NoResponse
    /\ session = NoSession
    /\ hints = <<>>
    /\ hint_requests = <<>>
    /\ llm_calls = 0
    /\ \E faiss \in BOOLEAN : vector_store = [NoIndexFiles EXCEPT !.faiss = faiss]
    /\ \E file_type \in FileTypes : document = UploadedDocument(file_type)

NextIngest ==
    \/ ExtractText
    \/ ExtractUnsupported
    \/ CreateChunks
    \/ GenerateEmbeddings
    \/ IndexChunks
    \/ ExtractConcepts
    \/ InferPrerequisites
    \/ BuildDocumentRoadmap
    \/ MarkReady
    \/ StageRaises

SpecIngest == InitIngest /\ [][NextIngest]_vars

\* process_document(document_id) called again for a document whose earlier
\* call has raised or returned: the row is looked up and the stages start
\* over; its status and its error message are as the earlier call left them
ProcessDocumentAgain ==
    /\ document.pc \in {"raised", "returned"}
    /\ document' = [document EXCEPT !.pc = Stages[1], !.called = <<>>]
    /\ UNCHANGED <<concepts, edges, steps, mcq_sets, progress, attempts, response>>
    /\ UNCHANGED <<session, hints, hint_requests, llm_calls, vector_store>>

NextReingest ==
    \/ NextIngest
    \/ ProcessDocumentAgain

SpecReingest == InitIngest /\ [][NextReingest]_vars

-----------------------------------------------------------------------------
(* PrereqService.infer_prerequisites, run on a document of six concepts.    *)
(* A name is the sequence of its words; on the names used here one name is  *)
(* a substring of another exactly when its words are a run of the other's   *)
(* words.                                                                   *)

\* Concept.name of the concepts 1..6, as extract_concepts stored them
ConceptNames ==
    <<<<"Calculus">>, <<"algebra">>, <<"trigonometry">>, <<"limits">>,
      <<"derivatives">>, <<"integrals">>>>

PrereqConceptIds == DOMAIN ConceptNames

\* a name no concept of the document has
UNKNOWN_NAME == <<"quantum", "fields">>

\* str.lower() on the words in use
lower_word(w) == IF w = "Calculus" THEN "calculus" ELSE w

lower_name(name) == [i \in DOMAIN name |-> lower_word(name[i])]

\* b in a: the name b occurs inside the name a
name_in(b, a) ==
    \E i \in 0..(Len(a) - Len(b)) : SubSeq(a, i + 1, i + Len(b)) = b

\* _build_fallback_prior_map(): the entries in the order of the dict
fallback_prior_map ==
    <<[key |-> <<"calculus">>, prereqs |-> <<<<"algebra">>, <<"trigonometry">>>>],
      [key |-> <<"linear", "algebra">>, prereqs |-> <<<<"algebra">>>>],
      [key |-> <<"differential", "equations">>, prereqs |-> <<<<"calculus">>>>],
      [key |-> <<"object-oriented", "programming">>,
       prereqs |-> <<<<"programming", "basics">>, <<"data", "structures">>>>],
      [key |-> <<"design", "patterns">>, prereqs |-> <<<<"object-oriented", "programming">>>>],
      [key |-> <<"algorithms">>,
       prereqs |-> <<<<"data", "structures">>, <<"programming", "basics">>>>],
      [key |-> <<"advanced", "topics">>, prereqs |-> <<<<"basics">>, <<"fundamentals">>>>]>>

\* _get_fallback_prereqs(concept_name): the entry of the lowered name, else
\* the first entry whose key is inside the name or the name inside the key
get_fallback_prereqs(concept_name) ==
    LET concept_lower == lower_name(concept_name)
        direct == {i \in DOMAIN fallback_prior_map : fallback_prior_map[i].key = concept_lower}
        partial == {i \in DOMAIN fallback_prior_map :
                       \/ name_in(fallback_prior_map[i].key, concept_lower)
                       \/ name_in(concept_lower, fallback_prior_map[i].key)}
    IN IF direct # {} THEN fallback_prior_map[least(direct)].prereqs
       ELSE IF partial # {} THEN fallback_prior_map[least(partial)].prereqs
       ELSE <<>>

\* the names of a list without the ones seen before in it
RECURSIVE without_repeats(_)
without_repeats(names) ==
    IF names = <<>> THEN <<>>
    ELSE LET front == without_repeats(SubSeq(names, 1, Len(names) - 1))
             last == names[Len(names)]
         IN IF last \in Range(front) THEN front ELSE Append(front, last)

\* all_prereq_names: fewer than two names from the model are merged with the
\* fallback's as a set (at most three names, so the order the set is listed
\* in decides no row); two or more are taken as returned
all_prereq_names(concept_name, llm_prereqs) ==
    IF Len(llm_prereqs) < 2
    THEN without_repeats(llm_prereqs \o get_fallback_prereqs(concept_name))
    ELSE llm_prereqs

\* all_prereq_names[:4]
first_four(names) == SubSeq(names, 1, min(Len(names), 4))

\* concept_name_to_id.get(prereq_name): the ids under that name (of two
\* concepts with one name the dict keeps the later one)
concept_name_to_id(cs, name) == {c \in cs : ConceptNames[c] = name}

\* the condition that lets every known name through, the concept's own too
is_prerequisite_of_any(cs, prereq_name, concept_id) ==
    concept_name_to_id(cs, prereq_name) # {}

\* prereq_id and prereq_id != concept.id
is_prerequisite_of(cs, prereq_name, concept_id) ==
    /\ concept_name_to_id(cs, prereq_name) # {}
    /\ greatest(concept_name_to_id(cs, prereq_name)) # concept_id

\* PrereqEdge.query.filter_by(concept_id, prerequisite_id).first(): the
\* query flushes the session first, so a row added earlier in the run is found
existing_edge(stored, added, row) == row \in stored \/ row \in Range(added)

\* the loop over all_prereq_names[:4] of one concept: the rows added to the
\* session so far, and the ones this concept adds
RECURSIVE add_edges(_, _, _, _, _)
add_edges(cs, stored, added, concept_id, names) ==
    IF names = <<>> THEN added
    ELSE LET row == [concept_id |-> concept_id,
                     prerequisite_id |-> greatest(concept_name_to_id(cs, Head(names)))]
         IN IF /\ is_prerequisite_of(cs, Head(names), concept_id)
               /\ ~existing_edge(stored, added, row)
            THEN add_edges(cs, stored, Append(added, row), concept_id, Tail(names))
            ELSE add_edges(cs, stored, added, concept_id, Tail(names))

\* the loop over the concepts, in the order of the list: prereq_edges
RECURSIVE prereq_edges(_, _, _, _, _)
prereq_edges(cs, todo, stored, added, answers) ==
    IF todo = <<>> THEN added
    ELSE LET c == Head(todo)
             names == first_four(all_prereq_names(ConceptNames[c], answers[c]))
         IN prereq_edges(cs, Tail(todo), stored, add_edges(cs, stored, added, c, names), answers)

\* db.session.commit(): the unique constraint on (concept_id, prerequisite_id)
\* refuses a pair that is stored or added twice
commit_refused(stored, added) ==
    \/ \E i \in DOMAIN added : added[i] \in stored
    \/ \E i, j \in DOMAIN added : i # j /\ added[i] = added[j]

\* another concept than c: the next one, and the one after it
next_concept(c) == (c % Cardinality(PrereqConceptIds)) + 1

\* the other concepts' names, from the next concept on
other_names(c) ==
    [i \in 1..(Cardinality(PrereqConceptIds) - 1) |->
        ConceptNames[((c + i - 1) % Cardinality(PrereqConceptIds)) + 1]]

\* what the model answers for concept c: nothing, the concept itself, an
\* unknown name, a name twice, names with the concept's own and an unknown
\* one among them, and every other concept of the document
AnswerLists(c) ==
    LET self == ConceptNames[c]
        n1 == ConceptNames[next_concept(c)]
        n2 == ConceptNames[next_concept(next_concept(c))]
    IN {<<>>, <<self>>, <<UNKNOWN_NAME>>, <<n1>>, <<n1, n1>>, <<self, n1>>,
        <<n2, UNKNOWN_NAME, n1>>, other_names(c), <<self>> \o other_names(c)}

\* infer_prerequisites(document_id, concepts): one answer of the model per
\* concept, the rows added, the commit
RunInferPrerequisites ==
    /\ llm_calls < MaxInferRuns * Cardinality(concepts)
    /\ \E c \in concepts : \E a \in AnswerLists(c) :
          LET answers == [d \in concepts |-> IF d = c THEN a ELSE <<>>]
              added == prereq_edges(concepts, Ascending(concepts), edges, <<>>, answers)
          IN IF commit_refused(edges, added)
             THEN /\ edges' = edges
                  /\ response' = [op |-> "infer_prerequisites", answers |-> answers,
                                  raised |-> "IntegrityError"]
             ELSE /\ edges' = edges \cup Range(added)
                  /\ response' = [op |-> "infer_prerequisites", answers |-> answers,
                                  prereq_edges |-> added]
    /\ llm_calls' = llm_calls + Cardinality(concepts)
    /\ UNCHANGED <<concepts, steps, mcq_sets, progress, attempts>>
    /\ UNCHANGED <<session, hints, hint_requests, vector_store, document>>

\* the concepts of the document are stored, no edge yet
InitPrereq ==
    /\ concepts = PrereqConceptIds
    /\ edges = {}
    /\ steps = {}
    /\ mcq_sets = {}
    /\ progress = {}
    /\ attempts = <<>>
    /\ response = NoResponse
    /\ InitBeyondProgress

NextPrereq == RunInferPrerequisites

SpecPrereq == InitPrereq /\ [][NextPrereq]_vars

----------------------------------------------------------------------------
(* The hint policy on its own: enforce_hint_policy and can_provide_hint     *)
(* called with the texts, configurations, hint numbers and topics below     *)

\* PolicyConfig: the defaults of its fields
DEFAULT_HINT_LIMIT == 3
DEFAULT_MAX_HINT_CHARS == 900
DEFAULT_MAX_CODE_CHARS == 350

\* PolicyConfig()
DefaultConfig ==
    [hint_limit |-> DEFAULT_HINT_LIMIT, max_hint_chars |-> DEFAULT_MAX_HINT_CHARS,
     allow_code_in_hints |-> TRUE, max_code_chars |-> DEFAULT_MAX_CODE_CHARS,
     block_final_answers_in_hint_mode |-> TRUE,
     block_step_by_step_in_hint_mode |-> TRUE,
     exam_mode_definitions_only |-> FALSE, replace_on_violation |-> TRUE]

\* the configurations: the default lengths or short ones, every switch either way
PolicyConfigs ==
    [hint_limit : {DEFAULT_HINT_LIMIT},
     max_hint_chars : {DEFAULT_MAX_HINT_CHARS, DEFAULT_MAX_HINT_CHARS \div 10},
     allow_code_in_hints : BOOLEAN,
     max_code_chars : {DEFAULT_MAX_CODE_CHARS, DEFAULT_MAX_CODE_CHARS \div 100},
     block_final_answers_in_hint_mode : BOOLEAN,
     block_step_by_step_in_hint_mode : BOOLEAN,
     exam_mode_definitions_only : BOOLEAN,
     replace_on_violation : BOOLEAN]

\* n characters without a space or a full stop
filler(n) == [i \in 1..n |-> "x"]

\* a hint that is a question
A_QUESTION ==
    <<"W", "h", "a", "t", " ", "i", "s", " ", "a", " ", "g", "r", "a", "p",
      "h", "?">>

\* a hint that is no question
A_STATEMENT ==
    <<"T", "h", "i", "n", "k", " ", "a", "b", "o", "u", "t", " ", "t", "h",
      "e", " ", "e", "d", "g", "e", "s", ".">>

\* the hint that gives the answer away
FINAL_ANSWER_TEXT ==
    <<"T", "h", "e", " ", "f", "i", "n", "a", "l", " ", "a", "n", "s", "w",
      "e", "r", " ", "i", "s", " ", "B", " ", "b", "e", "c", "a", "u", "s",
      "e", " ", "i", "t", " ", "s", "a", "t", "i", "s", "f", "i", "e", "s",
      " ", "t", "h", "e", " ", "c", "o", "n", "d", "i", "t", "i", "o", "n",
      ".">>

\* a numbered derivation in three paragraphs
NUMBERED_STEPS ==
    <<"1", ".", " ", "A", "d", "d", " ", "t", "h", "e", " ", "e", "d", "g",
      "e", "s", ".", NL, "2", ".", " ", "S", "o", "r", "t", " ", "t", "h",
      "e", "m", ".", NL, NL, "W", "h", "a", "t", " ", "c", "o", "m", "e",
      "s", " ", "n", "e", "x", "t", "?", NL, NL, "3", ".", " ", "P", "i",
      "c", "k", " ", "t", "h", "e", " ", "l", "e", "a", "s", "t", ".">>

\* a hint with a code block
WITH_CODE ==
    <<"L", "o", "o", "k", " ", "a", "t", " ", "t", "h", "i", "s", ":", NL,
      Backtick, Backtick, Backtick, NL, "f", "o", "r", " ", "e", " ", "i",
      "n", " ", "e", "d", "g", "e", "s", ":", NL, " ", " ", " ", " ", "a",
      "d", "d", "(", "e", ")", NL, Backtick, Backtick, Backtick, NL, "W",
      "h", "y", " ", "d", "o", "e", "s", " ", "i", "t", " ", "e", "n", "d",
      "?">>

\* what the generator may return: each of the texts above or nothing, alone or
\* followed by a filler that passes the default length; and a question that
\* passes the length detect_solution_leakage flags
HintTexts ==
    {t \o f : t \in {<<>>, A_QUESTION, A_STATEMENT, FINAL_ANSWER_TEXT, NUMBERED_STEPS, WITH_CODE},
              f \in {<<>>, filler(DEFAULT_MAX_HINT_CHARS + 1)}}
    \cup {filler(TOO_LONG + 1) \o A_QUESTION}

\* the hint numbers a caller passes: below, at and above the limit
HintNumbers == 0..(DEFAULT_HINT_LIMIT + 1)

\* the topics a caller passes: none, or one
Topics ==
    {<<>>,
 <<"g", "r", "a", "p", "h", "s">>}

\* the calls waiting to be made: the caller has chosen the arguments
PolicyCalls ==
    [call : {"can_provide_hint"}, hint_no : HintNumbers, cfg : PolicyConfigs]
    \cup [call : {"enforce_hint_policy"}, model_text : HintTexts, cfg : PolicyConfigs,
          hint_no : {1, DEFAULT_HINT_LIMIT}, topic : Topics]

\* enforce_hint_policy(model_text, cfg, hint_no = hint_no, topic = topic)
EnforceHintPolicy ==
    /\ response.op = "call"
    /\ response.args.call = "enforce_hint_policy"
    /\ LET a == response.args
       IN response' = [op |-> "enforce_hint_policy", model_text |-> a.model_text,
                       cfg |-> a.cfg, hint_no |-> a.hint_no, topic |-> a.topic,
                       result |-> enforce_hint_policy(a.model_text, a.cfg, a.hint_no, a.topic)]
    /\ UNCHANGED <<concepts, edges, steps, mcq_sets, progress, attempts>>
    /\ UNCHANGED beyond_progress

\* can_provide_hint(hint_no, cfg)
CanProvideHint ==
    /\ response.op = "call"
    /\ response.args.call = "can_provide_hint"
    /\ LET a == response.args
       IN response' = [op |-> "can_provide_hint", hint_no |-> a.hint_no, cfg |-> a.cfg,
                       result |-> can_provide_hint(a.hint_no, a.cfg)]
    /\ UNCHANGED <<concepts, edges, steps, mcq_sets, progress, attempts>>
    /\ UNCHANGED beyond_progress

\* no document (the policy reads no table), and one call about to be made
InitPolicy ==
    /\ concepts = {}
    /\ edges = {}
    /\ steps = {}
    /\ mcq_sets = {}
    /\ progress = {}
    /\ attempts = <<>>
    /\ \E args \in PolicyCalls : response = [op |-> "call", args |-> args]
    /\ InitBeyondProgress

NextPolicy == EnforceHintPolicy \/ CanProvideHint \/ TutorHint

SpecPolicy == InitPolicy /\ [][NextPolicy]_vars

-----------------------------------------------------------------------------
(* ChunkService._chunk_text, one loop iteration at a time.  The text is     *)
(* n different characters, each written as its position; chunk_size and     *)
(* overlap are Config.CHUNK_SIZE and Config.CHUNK_OVERLAP, two integers     *)
(* read from the environment independently of each other.                   *)

\* the longest text
MaxTextLen == 5

\* the largest CHUNK_SIZE
MaxChunkSize == 3

\* the largest CHUNK_OVERLAP
MaxOverlap == 3

\* the texts given to _chunk_text
ChunkTexts == {[i \in 1..n |-> i] : n \in 0..MaxTextLen}

\* the values of Config.CHUNK_SIZE
ChunkSizes == 1..MaxChunkSize

\* the values of Config.CHUNK_OVERLAP
ChunkOverlaps == 0..MaxOverlap

\* a slice bound as Python reads it: counted from the end when negative, and
\* kept within 0..n
slice_bound(i, n) ==
    IF i < 0 THEN (IF i + n < 0 THEN 0 ELSE i + n)
    ELSE IF i > n THEN n ELSE i

\* text[start:end]
slice(text, start, end) ==
    LET lo == slice_bound(start, Len(text))
        hi == slice_bound(end, Len(text))
    IN IF lo >= hi THEN <<>> ELSE SubSeq(text, lo + 1, hi)

\* _chunk_text is called: a text no longer than chunk_size is returned whole,
\* any other enters the loop with start = 0 and no chunks
ChunkTextCalled ==
    /\ response.op = "call"
    /\ LET a == response.args
       IN response' =
            IF Len(a.text) <= a.chunk_size
            THEN [op |-> "_chunk_text", text |-> a.text, chunk_size |-> a.chunk_size,
                  overlap |-> a.overlap, pc |-> "returned", start |-> 0,
                  chunks |-> <<a.text>>]
            ELSE [op |-> "_chunk_text", text |-> a.text, chunk_size |-> a.chunk_size,
                  overlap |-> a.overlap, pc |-> "while", start |-> 0,
                  chunks |-> <<>>]
    /\ UNCHANGED <<concepts, edges, steps, mcq_sets, progress, attempts>>
    /\ UNCHANGED beyond_progress

\* one iteration of while start < len(text); a call that has made more
\* iterations than the longest text has characters is followed no further
ChunkTextIterates ==
    /\ response.op = "_chunk_text"
    /\ response.pc = "while"
    /\ response.start < Len(response.text)
    /\ Len(response.chunks) <= MaxTextLen
    /\ response' =
         [response EXCEPT
            !.chunks = Append(@, slice(response.text, response.start,
                                       response.start + response.chunk_size)),
            !.start = @ + response.chunk_size - response.overlap]
    /\ UNCHANGED <<concepts, edges, steps, mcq_sets, progress, attempts>>
    /\ UNCHANGED beyond_progress

\* the loop is left and the chunks are returned
ChunkTextReturns ==
    /\ response.op = "_chunk_text"
    /\ response.pc = "while"
    /\ response.start >= Len(response.text)
    /\ response' = [response EXCEPT !.pc = "returned"]
    /\ UNCHANGED <<concepts, edges, steps, mcq_sets, progress, attempts>>
    /\ UNCHANGED beyond_progress

InitChunk ==
    /\ concepts = {}
    /\ edges = {}
    /\ steps = {}
    /\ mcq_sets = {}
    /\ progress = {}
    /\ attempts = <<>>
    /\ \E args \in [text : ChunkTexts, chunk_size : ChunkSizes, overlap : ChunkOverlaps] :
          response = [op |-> "call", args |-> args]
    /\ InitBeyondProgress

NextChunk == ChunkTextCalled \/ ChunkTextIterates \/ ChunkTextReturns

\* the call keeps running: nothing in it waits
SpecChunk == InitChunk /\ [][NextChunk]_vars /\ WF_vars(NextChunk)

----------------------------------------------------------------------------
(* Properties of build_roadmap, checked under SpecRoadmap *)

\* the pairs <<prerequisite, dependent>> of an edge table
Pairs(E) == {<<e.prerequisite_id, e.concept_id>> : e \in E}

\* one more step of composing the relation with itself
Compose(R) == R \cup {<<p[1][1], p[2][2]>> : p \in {q \in R \X R : q[1][2] = q[2][1]}}

RECURSIVE TransitiveClosure(_)
TransitiveClosure(R) == IF Compose(R) = R THEN R ELSE TransitiveClosure(Compose(R))

\* some concept is, directly or through others, its own prerequisite
HasCycle(E) == \E p \in TransitiveClosure(Pairs(E)) : p[1] = p[2]

\* the sequence lists every element of S exactly once
IsPermutationOf(out, S) ==
    /\ Len(out) = Cardinality(S)
    /\ Range(out) = S

\* the step table holds exactly one step per concept, with the orders 0..n-1
OneStepPerConcept ==
    /\ \A c \in concepts : Cardinality({st \in steps : st.concept_id = c}) = 1
    /\ {st.concept_id : st \in steps} = concepts
    /\ {st.order : st \in steps} = 0..(Cardinality(concepts) - 1)

\* build_roadmap has just returned a roadmap
Built == response.op = "build_roadmap" /\ concepts # {}

\* C4: for an acyclic edge set the order build_roadmap returns, and the order
\* indices it stores, list every concept once and put every prerequisite
\* strictly before the concept that depends on it.
C4_TopologicalOrder ==
    (Built /\ ~HasCycle(edges)) =>
        /\ IsPermutationOf(response.concept_ids, concepts)
        /\ OneStepPerConcept
        /\ \A e \in edges :
              /\ IndexOf(response.concept_ids, e.prerequisite_id)
                     < IndexOf(response.concept_ids, e.concept_id)
              /\ step_of_concept(steps, e.prerequisite_id).order
                     < step_of_concept(steps, e.concept_id).order

\* the scenario A -> B -> C with D unconnected, D listed first
C4_Witness ==
    /\ Built
    /\ concepts = {1, 2, 3, 4}
    /\ edges = {[concept_id |-> 2, prerequisite_id |-> 1],
                [concept_id |-> 3, prerequisite_id |-> 2]}
    /\ response.concept_ids = <<4, 1, 2, 3>>

\* C5: for an edge set with a cycle (a self-reference, mutual prerequisites)
\* build_roadmap still returns, and stores, every concept exactly once.
C5_EveryConceptOnce ==
    (Built /\ HasCycle(edges)) =>
        /\ IsPermutationOf(response.concept_ids, concepts)
        /\ OneStepPerConcept

\* two concepts that are each other's prerequisite, built after a third one
C5_Witness ==
    /\ Built
    /\ concepts = {1, 2, 3}
    /\ edges = {[concept_id |-> 1, prerequisite_id |-> 2],
                [concept_id |-> 2, prerequisite_id |-> 1]}
    /\ response.concept_ids = <<3, 2, 1>>

----------------------------------------------------------------------------
(* Properties of the progress state machine, checked under Spec *)

\* the step is a grade_attempt: it appended an Attempt, response' describes it
Graded == Len(attempts') = Len(attempts) + 1

\* the result says the attempt reached the threshold of one half
Passing(r) == r.total_count > 0 /\ 2 * r.correct_count >= r.total_count

\* correct_count / total_count as a score (0 for an empty set)
ScoreOfResult(r) ==
    IF r.total_count > 0 THEN Frac(r.correct_count, r.total_count) ELSE Zero

\* the step and the concept the graded question set belongs to
GradedStepId(resp) ==
    (CHOOSE m \in mcq_sets : m.id = resp.mcq_set_id).roadmap_step_id

GradedConcept(resp) ==
    (CHOOSE st \in steps : st.id = GradedStepId(resp)).concept_id

\* every prerequisite of concept d has a cleared row in rows
AllPrerequisitesCleared(rows, d) ==
    \A e \in edges : e.concept_id = d =>
        \E p \in rows : p.concept_id = e.prerequisite_id /\ p.status = "cleared"

\* C1: once a step's Progress is cleared, no operation makes it unlocked or
\* locked again.
C1_ClearedNeverReverts ==
    [][\A p \in progress : p.status = "cleared" =>
          \E q \in progress' :
              q.roadmap_step_id = p.roadmap_step_id /\ q.status = "cleared"]_vars

\* C2: the mastery stored for a concept never decreases, and after a graded
\* attempt it is the maximum of the value stored before (0 if none) and the
\* attempt's score.
C2_MasteryNeverDecreases ==
    [][/\ \A p \in progress : \E q \in progress' :
             q.concept_id = p.concept_id /\ Geq(q.mastery_score, p.mastery_score)
       /\ Graded =>
             get_mastery_for_concept(progress', GradedConcept(response')) =
                 max(get_mastery_for_concept(progress, GradedConcept(response')),
                     ScoreOfResult(response'.result))]_vars

C9_FailCreatesUnlocked ==
    [][(/\ Graded
        /\ ~Passing(response'.result)
        /\ \A p \in progress : p.roadmap_step_id # GradedStepId(response')) =>
          LET after == {q \in progress' : q.roadmap_step_id = GradedStepId(response')}
          IN /\ Cardinality(after) = 1
             /\ \A q \in after :
                   /\ q.status = "unlocked"
                   /\ q.mastery_score = ScoreOfResult(response'.result)
                   /\ (response'.result.correct_count = 3 /\ response'.result.total_count = 10)
                          => q.mastery_score = [num |-> 3, den |-> 10]]_vars

\* the first attempt of all: 3 of 10 right
C9_Witness ==
    /\ Len(attempts) = 1
    /\ response.op = "grade_attempt"
    /\ response.result.correct_count = 3
    /\ response.result.total_count = 10
    /\ \E p \in progress :
          /\ progress = {p}
          /\ p.status = "unlocked"
          /\ p.mastery_score = [num |-> 3, den |-> 10]

\* the status a read reports for a step without a row is the computed one
ComputedStatusIsRight(id, concept_id, status) ==
    (\A p \in progress : p.roadmap_step_id # id) =>
        /\ status \in {"unlocked", "locked"}
        /\ status = "unlocked" <=> AllPrerequisitesCleared(progress, concept_id)

C10_ReportedStatus ==
    /\ response.op = "get_step" =>
          ComputedStatusIsRight(response.id, response.concept_id, response.status)
    /\ response.op = "get_roadmap_for_document" =>
          /\ {response.roadmap[i].id : i \in DOMAIN response.roadmap} = {st.id : st \in steps}
          /\ \A i \in DOMAIN response.roadmap :
                ComputedStatusIsRight(response.roadmap[i].id,
                    response.roadmap[i].concept_id, response.roadmap[i].status)

\* C10: for a step without a Progress row get_step and
\* get_roadmap_for_document report unlocked exactly when every prerequisite
\* concept is cleared (always, when there is none) and locked otherwise, and
\* the report creates no Progress row.
C10_ComputedNotStored ==
    /\ []C10_ReportedStatus
    /\ [][response'.op \in {"get_step", "get_roadmap_for_document"} =>
              progress' = progress]_vars

\* concept 3 needs 1 and 2; 1 is cleared, 2 is not: step 3 is reported locked
C10_Witness ==
    /\ edges = {[concept_id |-> 3, prerequisite_id |-> 1],
                [concept_id |-> 3, prerequisite_id |-> 2]}
    /\ response.op = "get_step"
    /\ response.concept_id = 3
    /\ response.status = "locked"
    /\ \A p \in progress : p.concept_id # 3
    /\ \E p \in progress : p.concept_id = 1 /\ p.status = "cleared"

----------------------------------------------------------------------------
(* Properties of update_mastery, checked under SpecServices *)

\* the mastery stored for c after update_mastery(c, s1), update_mastery(c, s2)
MasteryAfter(c, s1, s2) ==
    get_mastery_for_concept(update_mastery(update_mastery(progress, c, s1), c, s2), c)

----------------------------------------------------------------------------
(* Properties of grading, checked under SpecGrade *)

\* the question set that was graded
GradedSet == CHOOSE m \in mcq_sets : m.id = response.mcq_set_id

\* C6: 0 <= score <= 1, correct_count <= total_count, and passed exactly
\* when score >= threshold.
C6_ScoreRange ==
    response.op = "grade_attempt" =>
        LET r == response.result
        IN /\ 0 <= r.correct_count /\ r.correct_count <= r.total_count
           /\ r.score.den > 0
           /\ 0 <= r.score.num /\ r.score.num <= r.score.den
           /\ r.passed <=>
                  r.score.num * MCQ_THRESHOLD_SCORE.den >= MCQ_THRESHOLD_SCORE.num * r.score.den

\* one of two right: the score is the threshold itself, and the attempt passed
C6_Witness ==
    /\ response.op = "grade_attempt"
    /\ response.result.total_count = 2
    /\ response.result.correct_count = 1
    /\ response.result.passed
    /\ 3 \in DOMAIN response.answers

\* the same option, whatever the case of the letters
SameLetter(x, y) == \E l \in {{"A", "a"}, {"B", "b"}} : x \in l /\ y \in l

\* the questions of the graded set that were answered with the correct option
RightlyAnswered ==
    {q \in 1..GradedSet.question_count :
        q \in DOMAIN response.answers /\ SameLetter(response.answers[q], GradedSet.correct[q])}

\* C7: correct_count counts the submitted question numbers of the set whose
\* answer is the correct option up to letter case; unanswered and unknown
\* numbers count as incorrect; score = correct_count / question_count, 0 for an
\* empty set.
C7_CorrectCount ==
    response.op = "grade_attempt" =>
        LET r == response.result
            n == GradedSet.question_count
        IN /\ r.correct_count = Cardinality(RightlyAnswered)
           /\ r.total_count = n
           /\ DOMAIN r.results = DOMAIN response.answers
           /\ \A q \in DOMAIN r.results : r.results[q].is_correct <=> q \in RightlyAnswered
           /\ IF n = 0 THEN r.score.num = 0
              ELSE r.score.num * n = r.correct_count * r.score.den

\* key A, B: question 1 answered "a", question 2 left out, an answer to a
\* question 3 the set does not have: one of two
C7_Witness ==
    /\ response.op = "grade_attempt"
    /\ GradedSet.correct = <<"A", "B">>
    /\ response.answers = (1 :> "a" @@ 3 :> "A")
    /\ response.result.correct_count = 1
    /\ response.result.score = [num |-> 1, den |-> 2]

----------------------------------------------------------------------------
(* Properties of one submission, commit by commit, checked under SpecCommits *)

\* the tables hold either nothing of the submission of session s or all of it
AllOrNothing(s, rows, atts) ==
    LET m == mcq_set_by_id(s.mcq_set_id)
    IN \/ rows = s.before.progress /\ atts = s.before.attempts
       \/ /\ rows = graded_progress(s.before.progress, m, s.result)
          /\ atts = Append(s.before.attempts, attempt_row(s.mcq_set_id, s.result))

\* C11: the effects of one grade_attempt submission are persisted as one unit:
\* while a submission is in flight, and after it has failed part-way, the
\* tables a reader sees hold either none of its effects or all of them (the
\* Attempt, the step's status with its mastery, the unlocked dependents)
C11_AtomicSubmission ==
    /\ [](session.pc # "idle" => AllOrNothing(session, progress, attempts))
    /\ [][session.pc # "idle" => AllOrNothing(session, progress', attempts')]_vars

\* a passed submission whose first commit has happened and unlocked a
\* dependent, with two commits still to come
C11_Witness ==
    /\ session.pc = "update_mastery"
    /\ session.result.passed
    /\ progress # session.before.progress
    /\ \E p \in progress \ session.before.progress :
          p.concept_id # session_concept(session) /\ p.status = "unlocked"

----------------------------------------------------------------------------
(* Properties of the Attempt table, checked under Spec *)

\* C12: every successful grade_attempt adds exactly one new Attempt record and
\* leaves the existing records as they are, also when the same question set
\* is submitted again; no operation changes or deletes an Attempt
C12_AttemptsAppendOnly ==
    [][/\ \/ attempts' = attempts
          \/ /\ Len(attempts') = Len(attempts) + 1
             /\ SubSeq(attempts', 1, Len(attempts)) = attempts
       /\ GradeAttempt =>
              /\ Len(attempts') = Len(attempts) + 1
              /\ attempts'[Len(attempts')] =
                     attempt_row(response'.mcq_set_id, response'.result)]_vars

\* the same answers to the same question set submitted twice: two records
C12_Witness ==
    /\ Len(attempts) = 2
    /\ attempts[1] = attempts[2]
    /\ response.op = "grade_attempt"

----------------------------------------------------------------------------
(* Properties of the gate of get_step_mcqs, checked under Spec *)

\* C13: get_step_mcqs serves (and generates, if there is none) the question
\* set of a step only when every prerequisite concept of the step is cleared
\* for the learner; otherwise it answers 403 and the MCQSet table is left as
\* it was
C13_GatedQuestionSets ==
    [][GetStepMcqs =>
          LET step == CHOOSE st \in steps : st.id = response'.id
          IN IF AllPrerequisitesCleared(progress, step.concept_id)
             THEN /\ response'.code = 200
                  /\ \E m \in mcq_sets' : m.roadmap_step_id = step.id
             ELSE /\ response'.code = 403
                  /\ mcq_sets' = mcq_sets]_vars

\* a question set served for a step with two prerequisites
C13_Witness ==
    /\ response.op = "get_step_mcqs"
    /\ response.code = 200
    /\ \E step \in steps :
          /\ step.id = response.id
          /\ Cardinality(get_prerequisites_for_concept(step.concept_id)) = 2
          /\ \E m \in mcq_sets : m.roadmap_step_id = step.id

----------------------------------------------------------------------------
(* Properties of the hint policy, checked under SpecPolicy *)

\* enforce_hint_policy has returned
Enforced == response.op = "enforce_hint_policy"

\* C14: for every text, hint number and configuration the text
\* enforce_hint_policy returns is no longer than cfg.max_hint_chars and ends
\* with a question mark
C14_WithinCapEndsWithQuestion ==
    Enforced =>
        LET text == response.result.text
        IN /\ Len(text) <= response.cfg.max_hint_chars
           /\ text # <<>>
           /\ text[Len(text)] = "?"

\* C15: in hint mode, whenever the text left by the sanitization still matches
\* a final-answer pattern or is longer than cfg.max_hint_chars,
\* enforce_hint_policy returns the fallback of build_safe_hint_fallback (the
\* limit-reached one exactly when hint_no >= hint_limit) with violation set;
\* so it does for the text FINAL_ANSWER_TEXT
C15_FinalGate ==
    (Enforced /\ ~response.cfg.exam_mode_definitions_only) =>
        LET text == sanitized_text(response.model_text, response.cfg)
            fallback == IF response.hint_no >= response.cfg.hint_limit
                        THEN USED_ALL \o str_of_int(response.cfg.hint_limit) \o HINTS
                        ELSE CANNOT_GIVE
        IN (\/ contains_final_pattern(text)
            \/ Len(text) > response.cfg.max_hint_chars
            \/ response.model_text = FINAL_ANSWER_TEXT) =>
               /\ response.result.violation
               /\ SubSeq(response.result.text, 1, Len(fallback)) = fallback

-----------------------------------------------------------------------------
(* Properties of can_provide_hint and tutor_hint, checked under SpecPolicy *)

\* C16: can_provide_hint(hint_no, cfg) is true exactly when
\* 1 <= hint_no <= cfg.hint_limit, and the route answers a request with
\* hint_no = limit + 1 with blocked = true
C16_CanProvideHint ==
    /\ response.op = "can_provide_hint" =>
          (response.result <=>
              (1 <= response.hint_no /\ response.hint_no <= response.cfg.hint_limit))
    /\ (response.op = "tutor_hint" /\ response.hint_no = HINT_LIMIT_DEFAULT + 1) =>
          (response.result.status = 200 /\ response.result.blocked)

\* can_provide_hint has refused the hint number below 1
C16_Witness ==
    /\ response.op = "can_provide_hint"
    /\ response.hint_no = 0
    /\ response.result = FALSE

-----------------------------------------------------------------------------
(* Properties of get_hint, checked under SpecTutor *)

\* the get_hint call that arrives in this step
Arriving == hint_requests'[Len(hint_requests')]

\* get_hint(roadmap_step_id, hint_number) arrives in this step
Arrives(roadmap_step_id, hint_number) ==
    /\ GetHint
    /\ IF Arriving.pc = "done"
       THEN /\ response'.op = "get_hint"
            /\ response'.roadmap_step_id = roadmap_step_id
            /\ response'.hint_number = hint_number
       ELSE /\ Arriving.roadmap_step_id = roadmap_step_id
            /\ Arriving.hint_number = hint_number

\* C17: a get_hint call with a hint number above the limit, or arriving when
\* the step already has the limit number of hints, is answered with the error
\* at once: the generator is not called and no Hint row is stored; and the
\* route answers hint_no above the limit with blocked, calling nothing
C17_BlockedWithoutGenerating ==
    [][/\ \A roadmap_step_id \in HintStepIds, hint_number \in HintNumberArgs :
            (/\ Arrives(roadmap_step_id, hint_number)
             /\ \/ hint_number > MAX_HINTS_PER_STEP
                \/ existing_hints(hints, roadmap_step_id) >= MAX_HINTS_PER_STEP)
            => /\ Arriving.pc = "done"
               /\ "error" \in DOMAIN response'.result
               /\ hints' = hints
               /\ llm_calls' = llm_calls
       /\ (TutorHint /\ response'.hint_no > HINT_LIMIT_DEFAULT)
            => /\ response'.result.blocked
               /\ hints' = hints
               /\ llm_calls' = llm_calls
               /\ hint_requests' = hint_requests]_vars

\* a call was refused because the step has all its hints, after as many
\* generator calls as hints
C17_Witness ==
    /\ response.op = "get_hint"
    /\ "error" \in DOMAIN response.result
    /\ response.result.error = "maximum_hints"
    /\ existing_hints(hints, response.roadmap_step_id) = MAX_HINTS_PER_STEP
    /\ llm_calls = MAX_HINTS_PER_STEP

\* the hint numbers stored for a step, in the order the rows were stored
RECURSIVE numbers_of_step(_, _)
numbers_of_step(tbl, roadmap_step_id) ==
    IF tbl = <<>> THEN <<>>
    ELSE LET rest == numbers_of_step(SubSeq(tbl, 1, Len(tbl) - 1), roadmap_step_id)
             last == tbl[Len(tbl)]
         IN IF last.roadmap_step_id = roadmap_step_id
            THEN Append(rest, last.hint_number)
            ELSE rest

\* C18: the hint numbers stored for a step start at 1 and increase with each
\* hint stored, none repeated or below 1, and neither a number nor the count
\* of the step's hints exceeds MAX_HINTS_PER_STEP
C18_HintNumbersIncreaseFromOne ==
    \A roadmap_step_id \in HintStepIds :
        LET numbers == numbers_of_step(hints, roadmap_step_id)
        IN /\ Len(numbers) <= MAX_HINTS_PER_STEP
           /\ \A i \in DOMAIN numbers :
                 /\ 1 <= numbers[i] /\ numbers[i] <= MAX_HINTS_PER_STEP
                 /\ i = 1 => numbers[i] = 1
                 /\ i > 1 => numbers[i] > numbers[i - 1]

\* C19: whatever the interleaving of the get_hint calls for a step, no two
\* Hint rows of the step have the same hint number and the step never has
\* more than MAX_HINTS_PER_STEP rows
C19_SerializedAllocation ==
    \A roadmap_step_id \in HintStepIds :
        /\ existing_hints(hints, roadmap_step_id) <= MAX_HINTS_PER_STEP
        /\ \A i, j \in DOMAIN hints :
              (/\ i # j
               /\ hints[i].roadmap_step_id = roadmap_step_id
               /\ hints[j].roadmap_step_id = roadmap_step_id)
              => hints[i].hint_number # hints[j].hint_number

-----------------------------------------------------------------------------
(* Properties of search, checked under SpecVectorStore *)

\* C20: search on a document whose index file or chunk-id array is missing,
\* or without faiss, returns the empty list and raises nothing
C20_SearchWithoutIndex ==
    (/\ response.op = "search"
     /\ \/ ~response.store.faiss
        \/ response.store.index = None
        \/ response.store.chunk_map = None)
    => /\ "results" \in DOMAIN response.result
       /\ response.result.results = <<>>

\* search ran between build_index's two writes: the index file was there, the
\* chunk-id array was not
C20_Witness ==
    /\ response.op = "search"
    /\ response.store.faiss
    /\ response.store.index # None
    /\ response.store.chunk_map = None
    /\ response.result = [results |-> <<>>]

\* search read both files and no build_index was between its two writes
SearchedCompleteBuild ==
    /\ response.op = "search"
    /\ ~search_lacks_index(response.store)
    /\ response.store.build = None

\* C21: a search that reads the files reads an index file and a chunk-id
\* array written by one completed build_index, never the index file of a
\* build together with the array of the build before it
C21_SearchSeesOneBuild ==
    (response.op = "search" /\ ~search_lacks_index(response.store))
    => response.store.build = None

\* the chunk ids search returned, in order
ReturnedChunkIds == [i \in DOMAIN response.result.results |-> response.result.results[i].chunk_id]

\* C22: search on a completely built index returns at most top_k results,
\* each a different chunk of the chunk-id array, and no more results than the
\* index has vectors
C22_DistinctIndexedChunks ==
    SearchedCompleteBuild =>
        /\ Len(ReturnedChunkIds) <= response.top_k
        /\ Len(ReturnedChunkIds) <= response.store.index.ntotal
        /\ \A i \in DOMAIN ReturnedChunkIds :
              \E k \in DOMAIN response.store.chunk_map.chunk_ids :
                  response.store.chunk_map.chunk_ids[k] = ReturnedChunkIds[i]
        /\ \A i, j \in DOMAIN ReturnedChunkIds :
              i # j => ReturnedChunkIds[i] # ReturnedChunkIds[j]

\* the chunks of the build_index call made in this step
BuildIndexChunks ==
    IF vector_store'.build # None THEN vector_store'.build.chunks ELSE response'.chunks

\* C23: build_index with no chunks, or with chunks none of which has an
\* embedding, returns without raising and leaves the index file and the
\* chunk-id array as they were
C23_NothingToIndexWritesNothing ==
    [][(BuildIndex /\ chunk_ids_of(BuildIndexChunks) = <<>>)
       => /\ vector_store' = vector_store
          /\ response' = [op |-> "build_index", chunks |-> BuildIndexChunks]]_vars

\* build_index returned for chunks without an embedding, on a document whose
\* index had been built
C23_Witness ==
    /\ response.op = "build_index"
    /\ "chunks" \in DOMAIN response
    /\ response.chunks # <<>>
    /\ chunk_ids_of(response.chunks) = <<>>
    /\ vector_store.faiss
    /\ vector_store.index # None
    /\ vector_store.chunk_map # None

-----------------------------------------------------------------------------
(* Properties of process_document, checked under SpecIngest *)

\* the call is in one of its stages
InAStage == \E i \in DOMAIN Stages : Stages[i] = document.pc

\* C24: when a stage of process_document fails, the document's status
\* becomes error with the failure's message, the exception reaches the
\* caller, and from then on no stage runs and nothing is tried again
C24_FailureStopsPipeline ==
    /\ [](document.status = "error" =>
            /\ document.pc = "raised"
            /\ document.error_message # None
            /\ response = [op |-> "process_document", raised |-> document.error_message.str])
    /\ [][/\ (InAStage /\ document' # document /\ document'.pc # stage_after(document.pc))
             => /\ document'.status = "error"
                /\ document'.called = Append(document.called, document.pc)
          /\ document.pc = "raised"
             => UNCHANGED <<document, concepts, edges, steps, vector_store, response>>]_vars

\* infer_prerequisites raised after the concepts were stored: the document
\* is in error and no roadmap was built
C24_Witness ==
    /\ document.pc = "raised"
    /\ document.status = "error"
    /\ document.called = SubSeq(Stages, 1, 6)
    /\ concepts # {}
    /\ steps = {}

\* C25: process_document calls its stages in the order extract, chunk, embed,
\* index, extract-concepts, infer-prerequisites, build-roadmap, one after
\* the other has returned, and the status is ready only when build-roadmap
\* has returned
C25_StagesInOrder ==
    /\ Len(document.called) <= Len(Stages)
    /\ document.called = SubSeq(Stages, 1, Len(document.called))
    /\ document.status = "ready" =>
          /\ document.called = Stages
          /\ document.pc = "returned"
    /\ InAStage => document.pc = Stages[Len(document.called) + 1]

\* the document is ready with its roadmap built
C25_Witness ==
    /\ document.status = "ready"
    /\ document.called = Stages
    /\ steps # {}
    /\ vector_store.index # None

-----------------------------------------------------------------------------
(* Properties of submit_attempt for a missing question set, under SpecGrade *)

\* C30: an attempt submitted for a question-set id that does not exist is
\* answered as not found (404), and no Attempt and no Progress row is
\* created or changed
C30_UnknownSetIsNotFound ==
    [][SubmitUnknownSet =>
          /\ response'.result.status = 404
          /\ attempts' = attempts
          /\ progress' = progress]_vars

-----------------------------------------------------------------------------
(* Properties of repeated build_roadmap runs, checked under SpecStoredRoadmap *)

\* C26: however often build_roadmap runs on a document, there is exactly one
\* step per concept: a step that exists keeps its id and its concept and
\* gets only a new order, and after each run the orders are 0..n-1 in the
\* order of the returned sequence
C26_RebuildKeepsOneStepPerConcept ==
    /\ [](Built => OneStepPerConcept)
    /\ [][BuildRoadmap =>
            /\ \A st \in steps : \E st2 \in steps' :
                  st2.id = st.id /\ st2.concept_id = st.concept_id
            /\ steps # {} => Cardinality(steps') = Cardinality(steps)
            /\ \A i \in DOMAIN response'.concept_ids :
                  step_of_concept(steps', response'.concept_ids[i]).order = i - 1]_vars

\* a later run has given the step created first another order than its first
C26_Witness ==
    /\ Built
    /\ Cardinality(steps) = Cardinality(concepts)
    /\ \E st \in steps : st.id = 1 /\ st.order = 2

\* the edge lies on a cycle: its dependent is, through edges, a prerequisite
\* of its prerequisite
OnCycle(e) ==
    \/ e.concept_id = e.prerequisite_id
    \/ <<e.concept_id, e.prerequisite_id>> \in TransitiveClosure(Pairs(edges))

\* C27: also when the edges contain a cycle, every edge that is not on a
\* cycle has its prerequisite at a smaller order index than its dependent,
\* the edges behind a cycle included
C27_NonCyclicEdgesRespected ==
    (Built /\ HasCycle(edges)) =>
        \A e \in edges : ~OnCycle(e) =>
            step_of_concept(steps, e.prerequisite_id).order
                < step_of_concept(steps, e.concept_id).order

\* C28: two runs of build_roadmap on the same concepts and edges return the
\* same sequence, in whatever order the store returns the concepts and the
\* edges and the leftover set is iterated
C28_OrderIsAFunctionOfTheSets ==
    [][(Built /\ BuildRoadmap) => response'.concept_ids = response.concept_ids]_vars

-----------------------------------------------------------------------------
(* Properties of infer_prerequisites, checked under SpecPrereq *)

\* infer_prerequisites has just returned or raised
Inferred == response.op = "infer_prerequisites"

\* C29: after any runs of infer_prerequisites, whatever names the model
\* answered, no stored edge is a self-loop, both ends of every edge are
\* concepts of the document, no run fails on a pair that is stored already,
\* no pair is added twice, a run with the answers of the run before adds
\* nothing, and a run adds at most four edges per concept
C29_StoredEdgesAreValid ==
    /\ [](/\ \A e \in edges :
               /\ e.concept_id # e.prerequisite_id
               /\ e.concept_id \in concepts
               /\ e.prerequisite_id \in concepts
          /\ Inferred => "raised" \notin DOMAIN response)
    /\ [][RunInferPrerequisites =>
            /\ edges \subseteq edges'
            /\ Range(response'.prereq_edges) = edges' \ edges
            /\ Len(response'.prereq_edges) = Cardinality(edges' \ edges)
            /\ \A c \in concepts :
                  Cardinality({e \in edges' \ edges : e.concept_id = c}) <= 4
            /\ (Inferred /\ response'.answers = response.answers) => edges' = edges]_vars

\* the second run got the same answers as the first, a list that starts with
\* the concept's own name and goes on with the five others: the first four
\* names gave three edges, and the second run added none
C29_Witness ==
    /\ Inferred
    /\ llm_calls = 2 * Cardinality(concepts)
    /\ response.answers[4] = <<ConceptNames[4]>> \o other_names(4)
    /\ response.prereq_edges = <<>>
    /\ Cardinality({e \in edges : e.concept_id = 4}) = 3
    /\ [concept_id |-> 1, prerequisite_id |-> 2] \in edges

-----------------------------------------------------------------------------
(* Properties of the stored Progress rows, checked under SpecServices *)

\* C36: no stored Progress row has the status locked: grade_attempt,
\* update_mastery and unlock_next_steps create their rows as unlocked or
\* cleared, and none of them writes locked
C36_NoStoredLockedRow ==
    \A p \in progress : p.status \in {"unlocked", "cleared"}

\* a row made by unlock_next_steps for the dependent of a step that a graded
\* attempt cleared
C36_Witness ==
    /\ response.op = "unlock_next_steps"
    /\ \E p \in progress : p.status = "cleared"
    /\ \E p \in progress : p.status = "unlocked" /\ p.mastery_score = Zero
    /\ Len(attempts) = 1

-----------------------------------------------------------------------------
(* Properties of the steps on a prerequisite cycle, checked under Spec *)

\* the concept is, directly or through others, its own prerequisite
InCycle(c) == <<c, c>> \in TransitiveClosure(Pairs(edges))

\* C35: the step of a concept on a prerequisite cycle never becomes
\* accessible: get_step_mcqs refuses it, no question set exists for it, and
\* its Progress never is cleared
C35_CycleStepsStayClosed ==
    \A st \in steps : InCycle(st.concept_id) =>
        /\ \A m \in mcq_sets : m.roadmap_step_id # st.id
        /\ \A p \in progress : p.roadmap_step_id = st.id => p.status # "cleared"
        /\ (response.op = "get_step_mcqs" /\ response.id = st.id) => response.code = 403

\* after two graded attempts on the step outside the cycle, the question set
\* of a step on the cycle is asked for and refused
C35_Witness ==
    /\ response.op = "get_step_mcqs"
    /\ response.code = 403
    /\ \E st \in steps : st.id = response.id /\ InCycle(st.concept_id)
    /\ Len(attempts) = 2
    /\ \E p \in progress : p.status = "cleared"

-----------------------------------------------------------------------------
(* Properties of the notes gate, checked under SpecNotes *)

\* the learner has a recorded score for the step, and it is below the threshold
ScoreBelowThreshold(id) ==
    \E p \in progress :
        /\ p.roadmap_step_id = id
        /\ ~Geq(p.mastery_score, MCQ_THRESHOLD_SCORE)

\* the learner has used all the hints of the step
HintsUsedUp(id) == get_hint_count(hints, id) >= MAX_HINTS_PER_STEP

\* the learner has submitted an attempt on the step
AttemptedStep(id) ==
    \E i \in DOMAIN attempts : \E m \in mcq_sets :
        m.id = attempts[i].mcq_set_id /\ m.roadmap_step_id = id

\* C32: should_unlock_notes is true exactly when the recorded score of the
\* step is below the pass threshold or all the hints of the step are used
C32_NotesUnlockedExactlyWhen ==
    response.op = "get_step_notes" =>
        (response.code = 200 <=>
            (ScoreBelowThreshold(response.id) \/ HintsUsedUp(response.id)))

\* C37: the notes of a step are not unlocked for a learner who has submitted
\* no attempt on the step and has used fewer hints than the limit
C37_NotesNeedAttemptOrHints ==
    (response.op = "get_step_notes" /\ response.code = 200) =>
        (AttemptedStep(response.id) \/ HintsUsedUp(response.id))

-----------------------------------------------------------------------------
(* Properties of the cleared steps, checked under SpecSubmissions *)

\* C33: whenever a step is cleared, every prerequisite concept of its
\* concept is cleared too, whatever question sets were requested and
\* whatever attempts, passed or failed, were graded
C33_ClearedImpliesPrerequisitesCleared ==
    \A p \in progress :
        p.status = "cleared" => AllPrerequisitesCleared(progress, p.concept_id)

-----------------------------------------------------------------------------
(* Properties of the learner who follows the roadmap, under SpecLearner *)

\* the learner was given a locked step, or was refused its question set
LearnerHeldUp ==
    \/ /\ response.op = "get_current_step"
       /\ response.step # None
       /\ response.step.status # "unlocked"
    \/ /\ response.op = "get_step_mcqs"
       /\ response.code # 200

\* get_current_step has returned None and every step is cleared
AllStepsCleared ==
    /\ response = [op |-> "get_current_step", step |-> None]
    /\ \A st \in steps : \E p \in progress :
          p.roadmap_step_id = st.id /\ p.status = "cleared"

\* C34: on a roadmap built from acyclic edges the learner who takes the
\* current step, requests its question set and passes it, again and again,
\* is never given a locked step, is never refused the question set, and in
\* the end has every step cleared
C34_LearnerGetsThrough ==
    /\ [](~HasCycle(edges) => ~LearnerHeldUp)
    /\ <>(HasCycle(edges) \/ AllStepsCleared)

\* the chain 3 -> 2 -> 1 (1 needs 2, 2 needs 3) was cleared in three attempts
C34_Witness ==
    /\ AllStepsCleared
    /\ edges = {[concept_id |-> 1, prerequisite_id |-> 2],
                [concept_id |-> 2, prerequisite_id |-> 3]}
    /\ Len(attempts) = 3

-----------------------------------------------------------------------------
(* Properties of process_document called again, checked under SpecReingest *)

\* C38: a document whose status is ready has no error message, also when
\* the call that made it ready follows a call that failed
C38_ReadyHasNoErrorMessage ==
    document.status = "ready" => document.error_message = None

\* C39: in hint mode with replace_on_violation set, the text
\* enforce_hint_policy returns matches no final-answer pattern, be it the
\* sanitized text or a fallback
C39_ReturnedTextHasNoFinalPattern ==
    (/\ Enforced
     /\ ~response.cfg.exam_mode_definitions_only
     /\ response.cfg.replace_on_violation) =>
        ~contains_final_pattern(response.result.text)

-----------------------------------------------------------------------------
(* Properties of _chunk_text, checked under SpecChunk *)

\* _chunk_text has returned
ChunkTextReturned == response.op = "_chunk_text" /\ response.pc = "returned"

\* C40: for every text, chunk_size and overlap _chunk_text returns, and every
\* character of the text is in one of the chunks it returns.  A call that
\* returns moves start forward in every iteration, so it never makes more
\* iterations than the text has characters.
C40_ChunkTextTerminatesAndCovers ==
    /\ <>ChunkTextReturned
    /\ [](response.op = "_chunk_text" => Len(response.chunks) <= Len(response.text) + 1)
    /\ [](ChunkTextReturned =>
            \A i \in 1..Len(response.text) :
               \E k \in 1..Len(response.chunks) :
                  \E j \in 1..Len(response.chunks[k]) :
                     response.chunks[k][j] = response.text[i])

-----------------------------------------------------------------------------
(* Properties of calls made at the same time, checked under SpecConcurrent *)

\* C31: however two calls of grade_attempt, update_mastery and
\* unlock_next_steps are interleaved, no step has two StepProgress rows and
\* neither call raises
C31_OneRowAndNoCallFails ==
    /\ \A p, q \in progress : p.roadmap_step_id = q.roadmap_step_id => p = q
    /\ \A w \in Workers : session[w].pc # "raised"

====
